---- MODULE Spec2Model ----
(***************************************************************************)
(* leaonline:http-factory -- the route handler pipeline of                 *)
(* createHTTPFactory (http-factory.js): registration of global middleware, *)
(* inline middleware and route handlers on the connect handler list, and   *)
(* the per-request pipeline preflight -> extract -> validate -> run ->     *)
(* finalize, driven by the connect continuation `next`.                    *)
(***************************************************************************)
EXTENDS Naturals, Sequences, FiniteSets, TLC

(***************************************************************************)
(* Bounds of the exploration.                                              *)
(***************************************************************************)
MaxRunOps == 2      \* calls the `run` functions make while one request is served

(***************************************************************************)
(* JavaScript values.  A value is a record [t, s]: t is the kind of value, *)
(* s its text (the characters of a string, the message of an Error, the    *)
(* digits of a number).                                                    *)
(***************************************************************************)
V(t, s) == [t |-> t, s |-> s]
Undefined == V("undefined", "")
Null      == V("null", "")
False     == V("boolean", "false")
Num(s)    == V("number", s)
Str(s)    == V("string", s)
Err(m)    == V("error", m)          \* new Error(m)
EmptyArr  == V("array", "")         \* []
EmptyRec  == V("object", "")        \* {}
Date0     == V("date", "0")         \* new Date(0)
Pending   == V("promise", "")       \* a pending Promise

\* typeof v
TypeOf(v) ==
  CASE v.t = "undefined" -> "undefined"
    [] v.t = "boolean"   -> "boolean"
    [] v.t = "number"    -> "number"
    [] v.t = "string"    -> "string"
    [] OTHER             -> "object"

\* the truthiness JavaScript gives v in `a || b`, `a && b`, `if (a)`
Truthy(v) ==
  CASE v.t \in {"undefined", "null"} -> FALSE
    [] v.t = "boolean" -> v.s = "true"
    [] v.t = "number"  -> v.s # "0"
    [] v.t = "string"  -> v.s # ""
    [] OTHER           -> TRUE

JsOr(a, b)  == IF Truthy(a) THEN a ELSE b      \* a || b
JsAnd(a, b) == IF Truthy(a) THEN b ELSE a      \* a && b

\* e.message for a truthy e: only Error objects of the model carry a message
MessageOf(e) == IF e.t = "error" THEN Str(e.s) ELSE Undefined

Quote(s) == "\"" \o s \o "\""

\* JSON.stringify(v) of a value inside an object; "" stands for `undefined`
\* (the property is then left out by JsonObject)
JsonValue(v) ==
  CASE v.t = "undefined" -> ""
    [] v.t = "null"      -> "null"
    [] v.t = "boolean"   -> v.s
    [] v.t = "number"    -> v.s
    [] v.t = "string"    -> Quote(v.s)
    [] v.t = "array"     -> "[]"
    [] v.t = "date"      -> Quote("1970-01-01T00:00:00.000Z")
    [] OTHER             -> "{}"      \* {}, an Error, a Promise: no own enumerable keys

JsonMember(k, v) == IF v.t = "undefined" THEN "" ELSE Quote(k) \o ":" \o JsonValue(v)

JsonJoin(a, b) == IF a = "" THEN b ELSE IF b = "" THEN a ELSE a \o "," \o b

\* JSON.stringify({ title, description, info }, null, 0)
JsonErrorBody(title, description, info) ==
  "{" \o JsonJoin(JsonJoin(JsonMember("title", title),
                           JsonMember("description", description)),
                  JsonMember("info", info)) \o "}"

\* EJSON.stringify(v): JSON extended by typed values such as dates
EJSONStringify(v) ==
  CASE v.t = "date"      -> "{\"$date\":" \o v.s \o "}"
    [] v.t = "undefined" -> "undefined"
    [] OTHER             -> JsonValue(v)

(***************************************************************************)
(* Objects of request parameters: functions from keys to numbers.  A       *)
(* container of the raw request (req.query, req.body) is [def, map]: def   *)
(* is FALSE when the host installed no parser and the container is         *)
(* undefined.                                                              *)
(***************************************************************************)
EmptyMap == <<>>
Obj(m)   == [def |-> TRUE, map |-> m]
NoObj    == [def |-> FALSE, map |-> EmptyMap]

\* variant: a key of both keeps the target's value
ObjectAssignKeepTarget(target, source) ==
  [k \in (DOMAIN target) \cup (DOMAIN source) |->
     IF k \in DOMAIN target THEN target[k] ELSE source[k]]

\* Object.assign(target, source) on two objects
ObjectAssign(target, source) ==
  [k \in (DOMAIN target) \cup (DOMAIN source) |->
     IF k \in DOMAIN source THEN source[k] ELSE target[k]]

\* the own enumerable properties Object.assign reads from a source that may
\* be undefined
SourceOf(c) == IF c.def THEN c.map ELSE EmptyMap

\* String.prototype.toLowerCase on the method names of the model
toLowerCase(s) ==
  CASE s = "GET"     -> "get"
    [] s = "HEAD"    -> "head"
    [] s = "POST"    -> "post"
    [] s = "PUT"     -> "put"
    [] s = "PATCH"   -> "patch"
    [] s = "DELETE"  -> "delete"
    [] s = "OPTIONS" -> "options"
    [] s = "Options" -> "options"
    [] s = "TRACE"   -> "trace"
    [] OTHER         -> s

\* variant: the method is compared as it is
isPreflightExact(rq) == rq.method = "OPTIONS"

isPreflight(rq) == toLowerCase(rq.method) = "options"

httpMethods == {"get", "head", "post", "put", "delete", "options", "trace", "patch"}

\* variant: only POST reads the body alone, as in the older webapp factory
getRequestParamsPostOnly(rq) ==
  LET m == toLowerCase(rq.method) IN
  IF m = "post"
    THEN ObjectAssign(EmptyMap, SourceOf(rq.body))
    ELSE IF m = "get"
      THEN ObjectAssign(EmptyMap, SourceOf(rq.query))
      ELSE ObjectAssign(ObjectAssign(EmptyMap, SourceOf(rq.query)), SourceOf(rq.body))

getRequestParams(rq) ==
  LET m == toLowerCase(rq.method) IN
  IF m \in {"post", "put", "patch"}
    THEN ObjectAssign(EmptyMap, SourceOf(rq.body))
    ELSE IF m = "get"
      THEN ObjectAssign(EmptyMap, SourceOf(rq.query))
      ELSE ObjectAssign(ObjectAssign(EmptyMap, SourceOf(rq.query)), SourceOf(rq.body))

TypeErrorMsg == "Cannot convert undefined or null to object"

\* variant: only POST updates the body alone
addRequestParamsPostOnly(rq, obj) ==
  LET m == toLowerCase(rq.method) IN
  IF m = "post" /\ rq.body.def
    THEN [ok |-> TRUE, ref |-> "body", own |-> EmptyMap,
          req |-> [rq EXCEPT !.body = Obj(ObjectAssign(rq.body.map, obj))]]
  ELSE IF m = "get" /\ rq.query.def
    THEN [ok |-> TRUE, ref |-> "query", own |-> EmptyMap,
          req |-> [rq EXCEPT !.query = Obj(ObjectAssign(rq.query.map, obj))]]
  ELSE IF rq.query.def /\ rq.body.def
    THEN LET b == [rq EXCEPT !.query = Obj(ObjectAssign(rq.query.map, obj)),
                             !.body = Obj(ObjectAssign(rq.body.map, obj))] IN
         [ok |-> TRUE, ref |-> "own",
          own |-> ObjectAssign(ObjectAssign(EmptyMap, b.query.map), b.body.map),
          req |-> b]
  ELSE [ok |-> FALSE, ref |-> "own", own |-> EmptyMap, req |-> rq]

\* addRequestParams(req, obj): [ok, req, ref, own].  ok is FALSE when
\* Object.assign throws on an undefined target; req is the raw request as the
\* call leaves it; the mapping returned is req.body itself (ref = "body"),
\* req.query itself (ref = "query") or a fresh object `own` (ref = "own").
addRequestParams(rq, obj) ==
  LET m == toLowerCase(rq.method) IN
  IF m \in {"post", "put", "patch"}
    THEN IF rq.body.def
           THEN [ok |-> TRUE, ref |-> "body", own |-> EmptyMap,
                 req |-> [rq EXCEPT !.body = Obj(ObjectAssign(rq.body.map, obj))]]
           ELSE [ok |-> FALSE, ref |-> "own", own |-> EmptyMap, req |-> rq]
    ELSE IF m = "get"
      THEN IF rq.query.def
             THEN [ok |-> TRUE, ref |-> "query", own |-> EmptyMap,
                   req |-> [rq EXCEPT !.query = Obj(ObjectAssign(rq.query.map, obj))]]
             ELSE [ok |-> FALSE, ref |-> "own", own |-> EmptyMap, req |-> rq]
      ELSE IF ~rq.query.def
        THEN [ok |-> FALSE, ref |-> "own", own |-> EmptyMap, req |-> rq]
        ELSE LET q == [rq EXCEPT !.query = Obj(ObjectAssign(rq.query.map, obj))] IN
             IF ~rq.body.def
               THEN [ok |-> FALSE, ref |-> "own", own |-> EmptyMap, req |-> q]
               ELSE LET b == [q EXCEPT !.body = Obj(ObjectAssign(rq.body.map, obj))] IN
                    [ok |-> TRUE, ref |-> "own",
                     own |-> ObjectAssign(ObjectAssign(EmptyMap, b.query.map), b.body.map),
                     req |-> b]

(***************************************************************************)
(* The response object of node's http server.                              *)
(*   header     : the head was rendered (res._header is set): writeHead or *)
(*                an implicit head at the first end                        *)
(*   headerSent : the head was flushed to the socket (res._headerSent)     *)
(*   finished   : end was called                                           *)
(*   statusCode : the status line of the head, "" before there is one      *)
(*   heads      : how many heads were rendered for this response           *)
(*   destroyed  : connect's final handler destroyed the socket             *)
(***************************************************************************)
NewResponse ==
  [header |-> FALSE, headerSent |-> FALSE, finished |-> FALSE,
   statusCode |-> "", contentType |-> "", body |-> "", heads |-> 0,
   destroyed |-> FALSE]

\* res.writeHead(code, headers): throws ERR_HTTP_HEADERS_SENT once the head
\* was rendered.  [ok, res]
writeHead(r, code, ctype) ==
  IF r.header
    THEN [ok |-> FALSE, res |-> r]
    ELSE [ok |-> TRUE,
          res |-> [r EXCEPT !.header = TRUE, !.statusCode = code,
                            !.contentType = ctype, !.heads = r.heads + 1]]

\* res.end(body): flushes the head (an implicit 200 head when none was
\* rendered) and the body; a second end changes nothing
end(r, body) ==
  IF r.finished
    THEN r
    ELSE [r EXCEPT !.header = TRUE, !.headerSent = TRUE, !.finished = TRUE,
                   !.statusCode = IF r.header THEN r.statusCode ELSE "200",
                   !.heads = IF r.header THEN r.heads ELSE r.heads + 1,
                   !.body = body]

JsonType == "application/json"

\* handleError(res, { error, title, description, code, info }): [ok, res];
\* ok is FALSE when res.writeHead throws
handleError(r, a) ==
  LET code == JsOr(a.code, Num("500"))
      h    == writeHead(r, code.s, JsonType)
      body == JsonErrorBody(a.title, a.description,
                            JsOr(a.info, JsAnd(a.error, MessageOf(a.error))))
  IN IF h.ok THEN [ok |-> TRUE, res |-> end(h.res, body)]
             ELSE [ok |-> FALSE, res |-> r]

(***************************************************************************)
(* Inputs of the exploration.                                              *)
(***************************************************************************)
Paths       == {"/p", "/q"}
ReqMethods  == {"GET", "POST", "DELETE", "OPTIONS", "options"}
QueryObjs   == {NoObj, Obj([a |-> 1, x |-> 1])}
BodyObjs    == {NoObj, Obj([a |-> 2])}
DataObjs    == {[a |-> 3]}                       \* arguments of this.data(value)
Results     == {Undefined, Null, False, Num("0"), Str(""), Str("ok"),
                EmptyArr, EmptyRec, Date0}
Thrown      == {Err("boom"), Err(""), Str("oops")}
ErrorArgs   ==
  {[error |-> Undefined, code |-> Num("403"), title |-> Str("Permission Denied"),
    description |-> Undefined, info |-> Undefined]}

Requests ==
  [method : ReqMethods, path : Paths, query : QueryObjs, body : BodyObjs]

\* Factory configurations: schemaFactory and onError are given or not;
\* globalMiddleware is the list of the remaining (function valued) options.
Config(sf, oe, gmw) == [schemaFactory |-> sf, onError |-> oe, globalMiddleware |-> gmw]

\* Route declarations.  schema.def is FALSE when the declaration has none
\* (schema.keys are the keys a declared schema requires); validate is ""
\* when the declaration has none; middleware is the list of its remaining
\* (function valued) fields.
NoSchema   == [def |-> FALSE, keys |-> {}]
Schema(ks) == [def |-> TRUE, keys |-> ks]
Plain(path) ==
  [path |-> path, method |-> "", schema |-> NoSchema, validate |-> "",
   onError |-> FALSE, middleware |-> <<>>]

\* The startup programs explored: one createHTTPFactory call and the
\* routeHandler calls that follow it.
Validated ==
  {Plain("/p"),
   [Plain("/p") EXCEPT !.schema = Schema({"a", "x"})],
   [Plain("/p") EXCEPT !.validate = "requireA"],
   [Plain("/p") EXCEPT !.validate = "requireA", !.schema = Schema({"a", "x"})],
   [Plain("/p") EXCEPT !.onError = TRUE]}

Program(cfg, ds) == [config |-> cfg, declarations |-> ds]

Programs ==
       \* one route: every validator and every error hook
       {Program(Config(sf, oe, <<>>), <<d>>) :
          sf \in BOOLEAN, oe \in BOOLEAN, d \in Validated}
       \* one route registered for one method
  \cup {Program(Config(FALSE, FALSE, <<>>), <<[Plain("/p") EXCEPT !.method = m]>>) :
          m \in {"get", "post"}}
       \* middleware ahead of a route: inline, global
  \cup {Program(Config(FALSE, FALSE, <<>>),
                <<[Plain("/p") EXCEPT !.middleware = <<"mw">>, !.validate = "requireA"]>>),
        Program(Config(FALSE, FALSE, <<"gmw">>), <<Plain("/p")>>)}
       \* two routes: on one path (the first one validates), on two paths
  \cup {Program(Config(FALSE, FALSE, <<>>),
                <<[Plain("/p") EXCEPT !.validate = "requireA"], Plain("/p")>>),
        Program(Config(FALSE, FALSE, <<>>), <<Plain("/p"), Plain("/q")>>)}

(***************************************************************************)
(* State.                                                                  *)
(***************************************************************************)
VARIABLES
  program,    \* the startup program of the application
  factory,    \* the options createHTTPFactory was called with; made = FALSE before
  stack,      \* the handler list of the app (WebApp.connectHandlers), in order
  sfCalls,    \* the calls of schemaFactory: the declaration and the schema passed
  req,        \* the raw request in flight: method, path, query, body
  res,        \* its response
  idx,        \* connect's position in the handler list for this request
  call,       \* the layer connect is about to call, 0 when none
  frames,     \* the layers whose `run` is executing, innermost last
  inv,        \* per layer: the invocation of its handler for this request
  out         \* connect's deferred final handler calls: "notfound" or "error"

vars == <<program, factory, stack, sfCalls, req, res, idx, call, frames, inv, out>>

NoFactory == [made |-> FALSE, schemaFactory |-> FALSE, onError |-> FALSE]
NoRequest == [method |-> "", path |-> "", query |-> NoObj, body |-> NoObj]
NoValue   == V("none", "")

\* An invocation record.  requestParams is `own` when ref = "own", and the
\* raw request's query or body object itself when ref names it.  The other
\* fields record what the invocation did:
\*   extracted   the mapping getRequestParams returned
\*   extracts, validations, runs   calls of getRequestParams, validateFn, run
\*   hooks       the calls of the error hook, in order
\*   nexts       calls of the framework's next; autoNext: one was handler's own
\*   writes      heads the pipeline (handler, handleError) wrote
\*   lastRead    what the last this.data() returned
\*   given       the values passed to this.data(value), merged
\*   errorCalls  the arguments of the this.error calls, in order
\*   selfSent    `run` itself wrote a head (res.writeHead, res.end, this.error)
\*   ops         calls `run` made
\*   ret, thrown what `run` returned or threw (thrown: also the validator's error)
\*   escaped     an exception left handler
\*   headAtEntry, headAtEnd, sentAtEnd   res._header at entry of handler, and
\*               res._header, res._headerSent when `run` ended
Idle ==
  [pc |-> "idle", ref |-> "own", own |-> EmptyMap, extracted |-> NoObj,
   nextCalled |-> FALSE, nexts |-> 0, autoNext |-> FALSE,
   extracts |-> 0, validations |-> 0, runs |-> 0, hooks |-> <<>>,
   writes |-> 0, lastRead |-> NoObj, ops |-> 0,
   ret |-> NoValue, thrown |-> NoValue, escaped |-> FALSE, outcome |-> "",
   given |-> EmptyMap, selfSent |-> FALSE, errorCalls |-> <<>>,
   headAtEntry |-> FALSE, headAtEnd |-> FALSE, sentAtEnd |-> FALSE]

Init ==
  /\ program \in Programs
  /\ factory = NoFactory
  /\ stack = <<>>
  /\ sfCalls = <<>>
  /\ req = NoRequest
  /\ res = NewResponse
  /\ idx = 0
  /\ call = 0
  /\ frames = <<>>
  /\ inv = <<>>
  /\ out = <<>>

(***************************************************************************)
(* Registration.                                                           *)
(***************************************************************************)
\* registerHandler({ app, path, method, handler }): the layer added to the
\* app's list; verb "use" is app.use, which serves every method
registerHandler(path, method, handler) ==
  [path |-> path,
   verb |-> IF method \in {"get", "head", "post", "put", "options", "trace", "patch"}
              THEN method ELSE "use",
   handler |-> handler]

MiddlewareHandler(name) ==
  [kind |-> "middleware", name |-> name, validator |-> "", schema |-> {},
   hook |-> "", method |-> "", path |-> "", decl |-> 0]

RECURSIVE RegisterAllNoPath(_, _, _)
\* variant: the middleware is registered without the path
RegisterAllNoPath(mws, path, method) ==
  IF mws = <<>> THEN <<>>
  ELSE <<registerHandler("", method, MiddlewareHandler(Head(mws)))>>
         \o RegisterAllNoPath(Tail(mws), path, method)

\* variant: only the first middleware is registered
RegisterAllFirstOnly(mws, path, method) ==
  IF mws = <<>> THEN <<>>
  ELSE <<registerHandler(path, method, MiddlewareHandler(Head(mws)))>>

RECURSIVE RegisterAll(_, _, _)
\* Object.values(middleware).forEach(mw => registerHandler({ app, path, method, handler: mw }))
RegisterAll(mws, path, method) ==
  IF mws = <<>> THEN <<>>
  ELSE <<registerHandler(path, method, MiddlewareHandler(Head(mws)))>>
         \o RegisterAll(Tail(mws), path, method)

\* createHTTPFactory({ schemaFactory, onError, isRaw, ...globalMiddleware })
createHTTPFactory(cfg) ==
  /\ ~factory.made
  /\ cfg = program.config
  /\ factory' = [made |-> TRUE, schemaFactory |-> cfg.schemaFactory, onError |-> cfg.onError]
  /\ stack' = stack \o RegisterAll(cfg.globalMiddleware, "", "")
  /\ UNCHANGED <<program, sfCalls, req, res, idx, call, frames, inv, out>>

\* variant: the schema validator is built whenever there is a schemaFactory
ValidatorOfFactoryFirst(d) ==
  IF factory.schemaFactory THEN "schema"
  ELSE IF d.validate # "" THEN "override" ELSE "noop"

\* the validator a declaration gets: validate || (() => {}), replaced by the
\* schema validator when there is no validate and a schemaFactory
ValidatorOf(d) ==
  IF d.validate # "" THEN "override"
  ELSE IF factory.schemaFactory THEN "schema" ELSE "noop"

\* variant: the factory's hook is preferred to the declaration's
HookOfGlobalFirst(d) ==
  IF factory.onError THEN "global" ELSE IF d.onError THEN "local" ELSE "noop"

\* localErrorHook = onError || globalErrorHook, globalErrorHook = onError || (() => {})
HookOf(d) ==
  IF d.onError THEN "local" ELSE IF factory.onError THEN "global" ELSE "noop"

NumRoutes == Cardinality({j \in 1..Len(stack) : stack[j].handler.kind = "route"})

\* routeHandler({ path, schema = {}, method = '', run, validate, onError, ...middleware })
routeHandler(d) ==
  /\ factory.made
  /\ NumRoutes < Len(program.declarations)
  /\ d = program.declarations[NumRoutes + 1]
  /\ LET schema  == IF d.schema.def THEN d.schema.keys ELSE {}
         handler == [kind |-> "route", name |-> d.validate, validator |-> ValidatorOf(d),
                     schema |-> schema, hook |-> HookOf(d), method |-> d.method,
                     path |-> d.path, decl |-> NumRoutes + 1]
     IN /\ stack' = stack \o RegisterAll(d.middleware, d.path, d.method)
                          \o <<registerHandler(d.path, d.method, handler)>>
        /\ sfCalls' = IF ValidatorOf(d) = "schema"
                         THEN Append(sfCalls, [decl |-> NumRoutes + 1, schema |-> schema])
                         ELSE sfCalls
  /\ UNCHANGED <<program, factory, req, res, idx, call, frames, inv, out>>

(***************************************************************************)
(* The framework: connect's dispatch over the handler list.                *)
(***************************************************************************)
Matches(layer, rq) ==
  /\ layer.path = "" \/ layer.path = rq.path
  /\ layer.verb = "use" \/ layer.verb = toLowerCase(rq.method)

\* the first layer after position `from` that serves the request, 0 if none
NextLayer(from, rq) ==
  LET S == {j \in (from + 1)..Len(stack) : Matches(stack[j], rq)} IN
  IF S = {} THEN 0 ELSE CHOOSE j \in S : \A k \in S : j <= k

\* next(): connect calls the next layer that serves the request, or defers
\* its final handler when the list is exhausted.  [call, idx, out]
Continuation(o) ==
  LET j == NextLayer(idx, req) IN
  IF j = 0 THEN [call |-> 0, idx |-> Len(stack), out |-> Append(o, "notfound")]
           ELSE [call |-> j, idx |-> j, out |-> o]

\* connect's final handler, run once the handlers returned: it answers 404
\* (list exhausted) or 500 (a handler threw) unless a head was rendered
\* already, in which case it destroys the socket
RECURSIVE FinalHandlerNotFound(_, _)
\* variant: the final handler answers 404 whatever happened
FinalHandlerNotFound(r, o) ==
  IF o = <<>> THEN r
  ELSE LET r1 == IF r.header
                   THEN [r EXCEPT !.destroyed = ~r.finished]
                   ELSE end(writeHead(r, "404", "text/html").res, "")
       IN FinalHandlerNotFound(r1, Tail(o))

RECURSIVE FinalHandler(_, _)
FinalHandler(r, o) ==
  IF o = <<>> THEN r
  ELSE LET code == IF Head(o) = "error" THEN "500" ELSE "404"
           r1   == IF r.header
                     THEN [r EXCEPT !.destroyed = ~r.finished]
                     ELSE end(writeHead(r, code, "text/html").res, "")
       IN FinalHandler(r1, Tail(o))

Busy == call # 0 \/ frames # <<>>

Finish ==
  /\ ~Busy
  /\ out # <<>>
  /\ res' = FinalHandler(res, out)
  /\ out' = <<>>
  /\ UNCHANGED <<program, factory, stack, sfCalls, req, idx, call, frames, inv>>

\* the exchange is over: request and response objects are dropped
Close ==
  /\ req # NoRequest
  /\ ~Busy /\ out = <<>>
  /\ req' = NoRequest
  /\ res' = NewResponse
  /\ inv' = <<>>
  /\ idx' = 0
  /\ UNCHANGED <<program, factory, stack, sfCalls, call, frames, out>>

\* a request arrives: connect starts at the head of the handler list
Request(rq) ==
  /\ factory.made
  /\ NumRoutes = Len(program.declarations)
  /\ req = NoRequest
  /\ req' = rq
  /\ res' = NewResponse
  /\ inv' = [j \in 1..Len(stack) |-> Idle]
  /\ frames' = <<>>
  /\ LET j == NextLayer(0, rq) IN
       /\ call' = j
       /\ idx' = IF j = 0 THEN Len(stack) ELSE j
       /\ out' = IF j = 0 THEN <<"notfound">> ELSE <<>>
  /\ UNCHANGED <<program, factory, stack, sfCalls>>

(***************************************************************************)
(* Middleware: a plain (req, res, next) function of the caller.            *)
(***************************************************************************)
MiddlewareActs == {"pass", "respond", "respondAndPass", "throw"}

Middleware(act) ==
  /\ call # 0
  /\ stack[call].handler.kind = "middleware"
  /\ LET i == call
         w == writeHead(res, "403", JsonType)
         writes == act \in {"respond", "respondAndPass"}
         threw  == act = "throw" \/ (writes /\ ~w.ok)
         passes == ~threw /\ act \in {"pass", "respondAndPass"}
         r1 == IF writes /\ w.ok
                 THEN end(w.res, "{\"title\":\"Permission Denied\"}") ELSE res
         c  == Continuation(out)
     IN /\ res' = r1
        /\ inv' = [inv EXCEPT ![i] =
                     [@ EXCEPT !.pc = "done", !.outcome = act, !.escaped = threw,
                               !.nexts = IF passes THEN 1 ELSE 0]]
        /\ call' = IF passes THEN c.call ELSE 0
        /\ idx' = IF passes THEN c.idx ELSE idx
        /\ out' = IF passes THEN c.out ELSE IF threw THEN Append(out, "error") ELSE out
  /\ UNCHANGED <<program, factory, stack, sfCalls, req, frames>>

(***************************************************************************)
(* The route handler built by routeHandler.                                *)
(***************************************************************************)
ValidationOk == [ok |-> TRUE, error |-> NoValue]
ValidationFailed(m) == [ok |-> FALSE, error |-> Err(m)]

\* the declaration's own validate function: it requires the key a
requireA(doc) ==
  IF "a" \in DOMAIN doc THEN ValidationOk ELSE ValidationFailed("a is required")

\* schemaFactory(schema).validate(document), for a factory that checks the
\* document against the schema as check(args, schema) does
schemaValidate(schema, doc) ==
  IF schema \ (DOMAIN doc) # {} THEN ValidationFailed("Match error: Missing key")
  ELSE IF (DOMAIN doc) \ schema # {} THEN ValidationFailed("Match error: Unknown key")
  ELSE ValidationOk

\* validateFn(requestParams || {})
validateFn(h, doc) ==
  CASE h.validator = "override" -> requireA(doc)
    [] h.validator = "schema"   -> schemaValidate(h.schema, doc)
    [] OTHER                    -> ValidationOk

\* errorHook(e): the record of one call of the effective hook; head tells
\* whether a head was rendered when the hook was called
errorHook(h, e, r) == [hook |-> h.hook, e |-> e, head |-> r.header]

\* the caller's hook throws whenever it is called, in the programs that say so
HookFails(h) ==
  h.hook # "noop" /\ "hookThrows" \in DOMAIN program /\ program.hookThrows


\* variant: errorHook is a plain function, an exception of the hook leaves
\* the call
errorHookThrowsSync(h) == HookFails(h)

\* the call errorHook(e) throws: never, errorHook is async e =>
\* localErrorHook(e, method, path), so an exception of the hook rejects the
\* promise the call returns, which every caller drops
errorHookThrows(h) == FALSE

\* variant: the validation error is passed without a code
BadRequestNoCode(e) ==
  [error |-> e, code |-> Undefined, title |-> Str("Bad Request"),
   description |-> Str("Malformed query or body."), info |-> Undefined]

BadRequest(e) ==
  [error |-> e, code |-> Num("400"), title |-> Str("Bad Request"),
   description |-> Str("Malformed query or body."), info |-> Undefined]

\* variant: the invocation error is passed without the error itself
InternalServerErrorNoError(e) ==
  [error |-> Undefined, code |-> Num("500"), title |-> Str("Internal Server Error"),
   description |-> Str("An unintended error occurred."), info |-> Undefined]

InternalServerError(e) ==
  [error |-> e, code |-> Num("500"), title |-> Str("Internal Server Error"),
   description |-> Str("An unintended error occurred."), info |-> Undefined]

\* variant: the request parameters are always the handler's own object
ParamsOfOwn(iv, rq) == iv.own

\* the request parameters of invocation i as `run` sees them
ParamsOf(iv, rq) ==
  CASE iv.ref = "query" -> rq.query.map
    [] iv.ref = "body"  -> rq.body.map
    [] OTHER            -> iv.own

Top == frames[Len(frames)]
Pop == SubSeq(frames, 1, Len(frames) - 1)

\* handler(req, res, next) from its entry to the call of `run`: preflight,
\* extraction, validation
handler ==
  /\ call # 0
  /\ stack[call].handler.kind = "route"
  /\ LET i == call
         h == stack[i].handler
     IN IF isPreflight(req)
          THEN LET w == writeHead(res, "200", "") IN
               /\ res' = IF w.ok THEN end(w.res, "") ELSE res
               /\ inv' = [inv EXCEPT ![i] =
                            [@ EXCEPT !.pc = "done", !.outcome = "preflight",
                                      !.headAtEntry = res.header,
                                      !.writes = IF w.ok THEN 1 ELSE 0,
                                      !.escaped = ~w.ok]]
               /\ out' = IF w.ok THEN out ELSE Append(out, "error")
               /\ frames' = frames
          ELSE LET requestParams == getRequestParams(req)
                   v == validateFn(h, requestParams)
                   hookThrew == errorHookThrows(h)
                   he == handleError(res, BadRequest(v.error))
                   e == [ok |-> ~hookThrew /\ he.ok,
                         res |-> IF hookThrew THEN res ELSE he.res]
                   entered == [inv[i] EXCEPT !.own = requestParams,
                                             !.headAtEntry = res.header,
                                             !.extracted = Obj(requestParams),
                                             !.extracts = 1, !.validations = 1]
               IN IF v.ok
                    THEN /\ inv' = [inv EXCEPT ![i] =
                                      [entered EXCEPT !.pc = "run", !.runs = 1]]
                         /\ frames' = Append(frames, i)
                         /\ res' = res
                         /\ out' = out
                    ELSE /\ inv' = [inv EXCEPT ![i] =
                                      [entered EXCEPT
                                         !.pc = "done", !.outcome = "invalid",
                                         !.hooks = <<errorHook(h, v.error, res)>>,
                                         !.thrown = v.error,
                                         !.writes = IF e.ok THEN 1 ELSE 0,
                                         !.escaped = ~e.ok]]
                         /\ res' = e.res
                         /\ out' = IF e.ok THEN out ELSE Append(out, "error")
                         /\ frames' = frames
  /\ call' = 0
  /\ UNCHANGED <<program, factory, stack, sfCalls, req, idx>>

(***************************************************************************)
(* `run`, the caller's handler: a sequence of calls on its environment     *)
(* (this.data, this.error), on the response and on the continuation,       *)
(* ended by a return or a throw.  An exception raised inside one of these  *)
(* calls leaves `run` as a throw.                                          *)
(***************************************************************************)
Running(i) ==
  /\ call = 0
  /\ frames # <<>>
  /\ i = Top
  /\ inv[i].pc = "run"

RECURSIVE OpsUpTo(_)
OpsUpTo(n) == IF n = 0 THEN 0 ELSE inv[n].ops + OpsUpTo(n - 1)

\* `run` may make one more call
CanCall == OpsUpTo(Len(stack)) < MaxRunOps

HeadersSentError == Err("ERR_HTTP_HEADERS_SENT")

\* variant: the hook is called after the error response was written
caughtHookLast(iv, h, e, r) ==
  LET he == handleError(r, InternalServerError(e))
      ok == he.ok /\ ~errorHookThrows(h)
  IN
  [ok  |-> ok,
   res |-> he.res,
   iv  |-> [iv EXCEPT !.pc = "done", !.outcome = "threw", !.thrown = e,
                      !.hooks = Append(iv.hooks, errorHook(h, e, he.res)),
                      !.writes = iv.writes + (IF he.ok THEN 1 ELSE 0),
                      !.escaped = ~ok,
                      !.headAtEnd = r.header, !.sentAtEnd = r.headerSent]]

\* catch (invocationError) { errorHook(invocationError); return handleError(...) }
caught(iv, h, e, r) ==
  LET hookThrew == errorHookThrows(h)
      he == handleError(r, InternalServerError(e))
      ok == ~hookThrew /\ he.ok
  IN
  [ok  |-> ok,
   res |-> IF hookThrew THEN r ELSE he.res,
   iv  |-> [iv EXCEPT !.pc = "done", !.outcome = "threw", !.thrown = e,
                      !.hooks = Append(iv.hooks, errorHook(h, e, r)),
                      !.writes = iv.writes + (IF ok THEN 1 ELSE 0),
                      !.escaped = ~ok,
                      !.headAtEnd = r.header, !.sentAtEnd = r.headerSent]]

\* `run` of invocation i, in state iv, throws e
Throws(i, iv, e) ==
  LET c == caught(iv, stack[i].handler, e, res) IN
  /\ inv' = [inv EXCEPT ![i] = c.iv]
  /\ res' = c.res
  /\ out' = IF c.ok THEN out ELSE Append(out, "error")
  /\ frames' = Pop
  /\ UNCHANGED <<call, idx>>

Op(iv) == [iv EXCEPT !.ops = iv.ops + 1]

\* this.data(value) with an object
data(i, value) ==
  /\ Running(i)
  /\ CanCall
  /\ LET a == addRequestParams(req, value) IN
       /\ req' = a.req
       /\ IF a.ok
            THEN /\ inv' = [inv EXCEPT ![i] =
                              [Op(@) EXCEPT !.ref = a.ref, !.own = a.own,
                                            !.given = ObjectAssign(@, value)]]
                 /\ UNCHANGED <<res, out, frames, call, idx>>
            ELSE Throws(i, Op(inv[i]), Err(TypeErrorMsg))
  /\ UNCHANGED <<program, factory, stack, sfCalls>>

\* this.data()
dataRead(i) ==
  /\ Running(i)
  /\ inv' = [inv EXCEPT ![i] = [@ EXCEPT !.lastRead = Obj(ParamsOf(inv[i], req))]]
  /\ UNCHANGED <<program, factory, stack, sfCalls, req, res, idx, call, frames, out>>

\* this.error({ error, code, title, description, info })
error(i, a) ==
  /\ Running(i)
  /\ CanCall
  /\ LET he == handleError(res, a)
         iv == [Op(inv[i]) EXCEPT
                  !.errorCalls = Append(@, a),
                  !.hooks = Append(@, errorHook(stack[i].handler, a.error, res))]
     IN IF errorHookThrows(stack[i].handler)
          THEN Throws(i, iv, Err("hook failed"))
        ELSE IF he.ok
          THEN /\ res' = he.res
               /\ inv' = [inv EXCEPT ![i] = [iv EXCEPT !.writes = @ + 1, !.selfSent = TRUE]]
               /\ UNCHANGED <<out, frames, call, idx>>
          ELSE Throws(i, iv, HeadersSentError)
  /\ UNCHANGED <<program, factory, stack, sfCalls, req>>

\* res.writeHead(201) called by `run`
resWriteHead(i) ==
  /\ Running(i)
  /\ CanCall
  /\ LET w == writeHead(res, "201", "") IN
       IF w.ok
         THEN /\ res' = w.res
              /\ inv' = [inv EXCEPT ![i] = [Op(@) EXCEPT !.selfSent = TRUE]]
              /\ UNCHANGED <<out, frames, call, idx>>
         ELSE Throws(i, Op(inv[i]), HeadersSentError)
  /\ UNCHANGED <<program, factory, stack, sfCalls, req>>

\* res.end('manual') called by `run`
resEnd(i) ==
  /\ Running(i)
  /\ CanCall
  /\ res' = end(res, "manual")
  /\ inv' = [inv EXCEPT ![i] = [Op(@) EXCEPT !.selfSent = @ \/ ~res.finished]]
  /\ UNCHANGED <<program, factory, stack, sfCalls, req, idx, call, frames, out>>

\* nextWrapper(): nextCalled = true; next()
nextWrapper(i) ==
  /\ Running(i)
  /\ CanCall
  /\ LET c == Continuation(out) IN
       /\ call' = c.call
       /\ idx' = c.idx
       /\ out' = c.out
  /\ inv' = [inv EXCEPT ![i] = [Op(@) EXCEPT !.nextCalled = TRUE, !.nexts = @ + 1]]
  /\ UNCHANGED <<program, factory, stack, sfCalls, req, res, frames>>

\* `run` throws e
runThrows(i, e) ==
  /\ Running(i)
  /\ Throws(i, inv[i], e)
  /\ UNCHANGED <<program, factory, stack, sfCalls, req>>

\* variant: handler answers whatever `run` returns, as the older webapp
\* factory does
finalizeNoPass(nextCalled, headerSent, result) ==
  IF nextCalled \/ headerSent THEN "skip" ELSE "respond"

\* variant: handler passes on whatever `run` returns
finalizePassAlways(nextCalled, headerSent, result) ==
  IF nextCalled \/ headerSent THEN "skip" ELSE "pass"

\* variant: handler leaves a pending result to the asynchronous work
finalizeAwaitsPending(nextCalled, headerSent, result) ==
  IF nextCalled \/ headerSent \/ result = Pending THEN "skip"
  ELSE IF TypeOf(result) = "undefined" THEN "pass"
  ELSE "respond"

\* variant: handler looks at the head only, not at nextCalled
finalizeNoNextCalled(nextCalled, headerSent, result) ==
  IF headerSent THEN "skip"
  ELSE IF TypeOf(result) = "undefined" THEN "pass"
  ELSE "respond"

\* what handler does with the outcome of `run`:
\*   if (nextCalled || res._headerSent) return
\*   if (typeof result === 'undefined') return next()
\*   res.writeHead(200, ...); res.end(...)
finalize(nextCalled, headerSent, result) ==
  IF nextCalled \/ headerSent THEN "skip"
  ELSE IF TypeOf(result) = "undefined" THEN "pass"
  ELSE "respond"

\* variant: every result is serialized
successBodyStringifyAll(result) == EJSONStringify(result)

\* the body of the 200 response
successBody(result) ==
  IF TypeOf(result) # "string" THEN EJSONStringify(result) ELSE result.s

\* `run` returns result: the rest of handler
runReturns(i, result) ==
  /\ Running(i)
  /\ LET iv == [inv[i] EXCEPT !.pc = "done", !.ret = result,
                              !.headAtEnd = res.header, !.sentAtEnd = res.headerSent]
         w  == writeHead(res, "200", JsonType)
         c  == Continuation(out)
         f  == finalize(iv.nextCalled, res.headerSent, result)
     IN IF f = "skip"
          THEN /\ inv' = [inv EXCEPT ![i] = [iv EXCEPT !.outcome = "skip"]]
               /\ UNCHANGED <<res, out, call, idx>>
          ELSE IF f = "pass"
            THEN /\ inv' = [inv EXCEPT ![i] =
                              [iv EXCEPT !.outcome = "pass", !.autoNext = TRUE,
                                         !.nexts = @ + 1]]
                 /\ call' = c.call
                 /\ idx' = c.idx
                 /\ out' = c.out
                 /\ res' = res
            ELSE IF w.ok
              THEN /\ res' = end(w.res, successBody(result))
                   /\ inv' = [inv EXCEPT ![i] =
                                [iv EXCEPT !.outcome = "ok", !.writes = @ + 1]]
                   /\ UNCHANGED <<out, call, idx>>
              ELSE /\ inv' = [inv EXCEPT ![i] =
                                [iv EXCEPT !.outcome = "ok", !.escaped = TRUE]]
                   /\ out' = Append(out, "error")
                   /\ UNCHANGED <<res, call, idx>>
  /\ frames' = Pop
  /\ UNCHANGED <<program, factory, stack, sfCalls, req>>

\* Asynchronous work of a `run` that returned a pending promise: calls it
\* makes from the event loop after handler returned, on the closures it was
\* given.
Later(i) ==
  /\ ~Busy
  /\ i \in DOMAIN inv
  /\ inv[i].pc = "done"
  /\ inv[i].ret = Pending
  /\ CanCall

\* nextWrapper() called after handler returned
nextWrapperLater(i) ==
  /\ Later(i)
  /\ LET c == Continuation(out) IN
       /\ call' = c.call
       /\ idx' = c.idx
       /\ out' = c.out
  /\ inv' = [inv EXCEPT ![i] = [Op(@) EXCEPT !.nextCalled = TRUE, !.nexts = @ + 1]]
  /\ UNCHANGED <<program, factory, stack, sfCalls, req, res, frames>>

\* res.end('manual') called after handler returned
resEndLater(i) ==
  /\ Later(i)
  /\ res' = end(res, "manual")
  /\ inv' = [inv EXCEPT ![i] = Op(@)]
  /\ UNCHANGED <<program, factory, stack, sfCalls, req, idx, call, frames, out>>

Layers == 1..Len(stack)

Next ==
  \/ createHTTPFactory(program.config)
  \/ \E n \in DOMAIN program.declarations : routeHandler(program.declarations[n])
  \/ \E rq \in Requests : Request(rq)
  \/ \E act \in MiddlewareActs : Middleware(act)
  \/ handler
  \/ \E i \in Layers, value \in DataObjs : data(i, value)
  \/ \E i \in Layers : dataRead(i)
  \/ \E i \in Layers, a \in ErrorArgs : error(i, a)
  \/ \E i \in Layers : resWriteHead(i)
  \/ \E i \in Layers : resEnd(i)
  \/ \E i \in Layers : nextWrapper(i)
  \/ \E i \in Layers, e \in Thrown : runThrows(i, e)
  \/ \E i \in Layers, result \in Results : runReturns(i, result)
  \/ Finish
  \/ Close

Spec == Init /\ [][Next]_vars

(***************************************************************************)
(* Properties.  Invocations == the handlers the current request went       *)
(* through; RouteInvocations those of route handlers.                      *)
(***************************************************************************)
Invocations == {i \in DOMAIN inv : inv[i].pc # "idle"}
RouteInvocations == {i \in Invocations : stack[i].handler.kind = "route"}

\* the response carries exactly this answer
Answered(code, ctype, body) ==
  /\ res.finished
  /\ res.statusCode = code
  /\ res.contentType = ctype
  /\ res.body = body

ErrorBody500(m) ==
  "{\"title\":\"Internal Server Error\",\"description\":\"An unintended error occurred.\",\"info\":\""
    \o m \o "\"}"

ErrorBody400(m) ==
  "{\"title\":\"Bad Request\",\"description\":\"Malformed query or body.\",\"info\":\""
    \o m \o "\"}"

\* `run` of invocation i threw an Error
RunThrewError(i) ==
  /\ inv[i].runs = 1
  /\ inv[i].outcome = "threw"
  /\ inv[i].thrown.t = "error"

\* the 500 answer to the Error `run` of invocation i threw
Answers500(i) ==
  /\ inv[i].writes = 1
  /\ Answered("500", "application/json", ErrorBody500(inv[i].thrown.s))
  /\ ~inv[i].autoNext

\* C1 as stated: whenever the request is not OPTIONS, validation passed and
\* `run` threw an Error with message m, the response is 500, application/json,
\* {title, description, info: m}, and handler did not call next.
C1_AsStated == \A i \in RouteInvocations : RunThrewError(i) => Answers500(i)

\* C1: when `run` throws an Error with message m and no head was written to
\* the response before the throw (not by `run`, not by a handler before or
\* after this one), the response is 500, application/json, {title: 'Internal
\* Server Error', description: 'An unintended error occurred.', info: m}, the
\* pipeline wrote it in one go and did not call next.
C1_RunThrows ==
  \A i \in RouteInvocations :
    (RunThrewError(i) /\ ~inv[i].headAtEnd) => Answers500(i)

C1_Witness ==
  \E i \in RouteInvocations :
    /\ RunThrewError(i) /\ ~inv[i].headAtEnd
    /\ inv[i].thrown = Err("boom")
    /\ res.statusCode = "500"

\* the validator of invocation i threw
ValidatorThrew(i) ==
  /\ inv[i].validations = 1
  /\ inv[i].outcome = "invalid"

Answers400(i) ==
  /\ inv[i].writes = 1
  /\ Answered("400", "application/json", ErrorBody400(inv[i].thrown.s))

\* C2 as stated: for every non-OPTIONS request, if the validator throws m the
\* response is 400 {title: 'Bad Request', description: 'Malformed query or
\* body.', info: m} and neither `run` nor next is called; if the validator
\* returns, `run` is called.
C2_AsStated ==
  \A i \in RouteInvocations :
    /\ ValidatorThrew(i) => (Answers400(i) /\ inv[i].runs = 0 /\ inv[i].nexts = 0)
    /\ (inv[i].validations = 1 /\ ~ValidatorThrew(i)) => inv[i].runs = 1

\* C2: for every non-OPTIONS request, if the validator throws m then neither
\* `run` nor next is called for the invocation, and when no head was written
\* to the response before handler was entered the response is 400 {title: 'Bad
\* Request', description: 'Malformed query or body.', info: m}; if the
\* validator returns, `run` is called.
C2_Validation ==
  \A i \in RouteInvocations :
    /\ ValidatorThrew(i) => (inv[i].runs = 0 /\ inv[i].nexts = 0)
    /\ (ValidatorThrew(i) /\ ~inv[i].headAtEntry) => Answers400(i)
    /\ (inv[i].validations = 1 /\ ~ValidatorThrew(i)) => inv[i].runs = 1

C2_Witness ==
  \E i \in RouteInvocations :
    /\ ValidatorThrew(i) /\ ~inv[i].headAtEntry
    /\ inv[i].thrown = Err("a is required")
    /\ res.statusCode = "400"

\* the body expected for a value `run` returned
ExpectedBody(v) ==
  CASE v = Null     -> "null"
    [] v = False    -> "false"
    [] v = Num("0") -> "0"
    [] v = EmptyArr -> "[]"
    [] v = EmptyRec -> "{}"
    [] v = Date0    -> "{\"$date\":0}"
    [] OTHER        -> v.s

\* `run` of invocation i returned a value other than undefined
Returned(i) == inv[i].ret \notin {NoValue, Undefined}

Answers200(i) ==
  /\ inv[i].writes = 1
  /\ res.heads = 1
  /\ Answered("200", "application/json", ExpectedBody(inv[i].ret))

\* C3 as stated: when `run` returned a value other than undefined, did not
\* call next and sent no headers itself, exactly one response is written: 200,
\* application/json, the string verbatim or the EJSON text of the value.
C3_AsStated ==
  \A i \in RouteInvocations :
    (Returned(i) /\ ~inv[i].nextCalled /\ ~inv[i].selfSent) => Answers200(i)

\* C3: when `run` returned a value other than undefined, did not call next,
\* and no head was written to the response by anyone (`run`, or a handler
\* before this one) when it returned, exactly one response is written: 200,
\* application/json, with the returned string verbatim as body, or the EJSON
\* text of a value that is not a string (null, false, 0, [], {} included; ''
\* gives the empty body).
C3_Success ==
  \A i \in RouteInvocations :
    (Returned(i) /\ ~inv[i].nextCalled /\ ~inv[i].headAtEnd) => Answers200(i)

C3_Witness ==
  \E i \in RouteInvocations :
    /\ Returned(i) /\ ~inv[i].nextCalled /\ ~inv[i].headAtEnd
    /\ inv[i].ret = Date0
    /\ res.statusCode = "200"

\* C4: when `run` returned undefined, had not called next, and the response
\* headers had not been sent when it returned, handler calls next exactly
\* once on its behalf and writes nothing to the response.
C4_PassThrough ==
  [][\A i \in DOMAIN inv :
       ( /\ inv[i].pc = "run"
         /\ inv'[i].pc = "done"
         /\ inv'[i].ret = Undefined
         /\ ~inv[i].nextCalled
         /\ ~res.headerSent )
       => /\ inv'[i].autoNext
          /\ inv'[i].nexts = 1
          /\ inv'[i].writes = 0
          /\ res' = res
          /\ \/ call' > i /\ call' = idx'
             \/ call' = 0 /\ out' = Append(out, "notfound")]_vars

C4_Witness ==
  \E i \in RouteInvocations :
    /\ inv[i].ret = Undefined
    /\ ~inv[i].nextCalled /\ ~inv[i].sentAtEnd
    /\ inv[i].autoNext
    /\ inv[i].nexts = 1

\* C5: when `run` returns, whatever the value, after it called next through
\* the wrapper or with the response headers already sent, handler ends
\* without writing status, headers or body and without calling next again.
C5_Skip ==
  [][\A i \in DOMAIN inv :
       ( /\ inv[i].pc = "run"
         /\ inv'[i].pc = "done"
         /\ inv'[i].ret # NoValue
         /\ (inv[i].nextCalled \/ res.headerSent) )
       => /\ res' = res
          /\ inv'[i].writes = inv[i].writes
          /\ inv'[i].nexts = inv[i].nexts
          /\ ~inv'[i].autoNext
          /\ ~inv'[i].escaped
          /\ <<call, idx, out>>' = <<call, idx, out>>]_vars

C5_Witness ==
  \E i \in RouteInvocations :
    /\ Returned(i)
    /\ inv[i].nextCalled
    /\ inv[i].nexts = 1
    /\ ~inv[i].sentAtEnd
    /\ inv[i].writes = 0

\* the invocations of route handlers for an OPTIONS request
Preflights ==
  {i \in RouteInvocations : req.method \in {"OPTIONS", "options", "Options"}}

NothingInvoked(i) ==
  /\ inv[i].pc = "done"
  /\ inv[i].extracts = 0
  /\ inv[i].validations = 0
  /\ inv[i].runs = 0
  /\ inv[i].hooks = <<>>
  /\ inv[i].nexts = 0

EmptyOk(i) ==
  /\ inv[i].writes = 1
  /\ res.finished /\ res.statusCode = "200" /\ res.body = ""

\* C6 as stated: every route handler answers a request whose method is
\* OPTIONS, in any letter case, with 200 and an empty body, and calls neither
\* the extractor, the validator, `run`, the error hook nor next.
C6_AsStated == \A i \in Preflights : EmptyOk(i) /\ NothingInvoked(i)

\* C6: for a request whose method is OPTIONS, in any letter case, every route
\* handler calls neither the extractor, the validator, `run`, the error hook
\* nor next; and when no head was written to the response before handler was
\* entered, the response is 200 with an empty body.
C6_Preflight ==
  \A i \in Preflights :
    /\ NothingInvoked(i)
    /\ ~inv[i].headAtEntry => EmptyOk(i)

C6_Witness ==
  \E i \in Preflights :
    /\ req.method = "options"
    /\ ~inv[i].headAtEntry
    /\ stack[i].handler.validator = "schema"
    /\ res.statusCode = "200"

\* C7: two route handlers on the same path and method, a request of any
\* method whose query and body containers exist: while the second handler
\* runs because the first one's `run` called this.data(v) and then next,
\* this.data() in the second handler returns the parameters the first handler
\* extracted merged with v, keys of v winning.
C7_DataForNext ==
  \A i, j \in RouteInvocations :
    ( /\ i < j
      /\ stack[i].path = stack[j].path
      /\ stack[i].handler.method = stack[j].handler.method
      /\ req.query.def /\ req.body.def
      /\ inv[i].pc = "run" /\ inv[i].nextCalled
      /\ inv[i].given # EmptyMap
      /\ inv[j].pc = "run"
      /\ inv[j].given = EmptyMap
      /\ inv[j].lastRead.def )
    => inv[j].lastRead.map =
         [k \in (DOMAIN inv[i].extracted.map) \cup (DOMAIN inv[i].given) |->
            IF k \in DOMAIN inv[i].given
              THEN inv[i].given[k] ELSE inv[i].extracted.map[k]]

C7_Witness ==
  \E i, j \in RouteInvocations :
    /\ i < j
    /\ req.method = "DELETE"
    /\ inv[i].pc = "run" /\ inv[i].nextCalled
    /\ inv[i].extracted.map = [a |-> 2, x |-> 1]
    /\ inv[i].given = [a |-> 3]
    /\ inv[j].pc = "run"
    /\ inv[j].lastRead = Obj([a |-> 3, x |-> 1])

(***************************************************************************)
(* The extraction of the request parameters alone: requests of every       *)
(* method handler distinguishes, with every combination of containers,     *)
(* sent to one route handler and followed up to the call of `run`.         *)
(***************************************************************************)
ExtractMethods == {"GET", "POST", "PUT", "PATCH", "DELETE", "HEAD", "post"}
ExtractObjs == {NoObj, Obj(EmptyMap), Obj([a |-> 1, x |-> 1]), Obj([a |-> 2]),
                Obj([a |-> 2, y |-> 2])}
ExtractRequests ==
  [method : ExtractMethods, path : {"/p"}, query : ExtractObjs, body : ExtractObjs]
ExtractPrograms ==
  {pr \in Programs : /\ Len(pr.declarations) = 1
                     /\ pr.config.globalMiddleware = <<>>
                     /\ pr.declarations[1].middleware = <<>>}

InitExtract == Init /\ program \in ExtractPrograms

NextExtract ==
  \/ createHTTPFactory(program.config)
  \/ \E n \in DOMAIN program.declarations : routeHandler(program.declarations[n])
  \/ \E rq \in ExtractRequests : Request(rq)
  \/ handler

SpecExtract == InitExtract /\ [][NextExtract]_vars

\* the own properties of a container, none when it is undefined
Props(c) == IF c.def THEN c.map ELSE <<>>

\* query then body, the body's value for a key of both
Merged(rq) ==
  [k \in (DOMAIN Props(rq.query)) \cup (DOMAIN Props(rq.body)) |->
     IF k \in DOMAIN Props(rq.body) THEN rq.body.map[k] ELSE rq.query.map[k]]

ByRequestMethod(rq) ==
  CASE rq.method \in {"POST", "post", "PUT", "PATCH"} -> Props(rq.body)
    [] rq.method = "GET"                               -> Props(rq.query)
    [] OTHER                                           -> Merged(rq)

Extractions == {i \in RouteInvocations : inv[i].extracts = 1}

\* C8 as stated: the parameters extracted are a copy of the body for POST,
\* PUT, PATCH, a copy of the query for GET, and the merge of query then body
\* for any other method and for a route declared without a method.
C8_AsStated ==
  \A i \in Extractions :
    inv[i].extracted.map =
      IF stack[i].handler.method = "" THEN Merged(req) ELSE ByRequestMethod(req)

\* C8: the parameters extracted are decided by the method of the request,
\* whatever method the route was declared with, also for a route declared
\* without one: a copy of the parsed body for POST, PUT, PATCH, a copy of the
\* parsed query for GET, and for any other request method the merge of query
\* then body, the body's value winning for a key of both.
C8_Extracted ==
  \A i \in Extractions :
    /\ inv[i].ref = "own"
    /\ inv[i].extracted.map = ByRequestMethod(req)

C8_Witness ==
  \E i \in Extractions :
    /\ stack[i].handler.method = ""
    /\ req.method = "PUT"
    /\ req.query = Obj([a |-> 1, x |-> 1])
    /\ req.body = Obj([a |-> 2, y |-> 2])
    /\ inv[i].extracted = Obj([a |-> 2, y |-> 2])

\* the declaration a route handler was built from
DeclOf(j) == program.declarations[stack[j].handler.decl]

\* the calls of schemaFactory made for declaration n
SfCallsFor(n) == {k \in DOMAIN sfCalls : sfCalls[k].decl = n}

\* the validator the declaration asks for accepts the document
Accepts(d, doc) ==
  IF d.validate # "" THEN "a" \in DOMAIN doc
  ELSE IF program.config.schemaFactory
    THEN DOMAIN doc = (IF d.schema.def THEN d.schema.keys ELSE {})
    ELSE TRUE

\* C9: a declaration with validate is validated by it alone and schemaFactory
\* is never called for it; without validate but with a schemaFactory,
\* schemaFactory is called exactly once, at registration, with the route's
\* schema, and requests are validated by the validator it returned; otherwise
\* every request is accepted.
C9_ValidatorSelection ==
  \A j \in DOMAIN stack :
    stack[j].handler.kind = "route" =>
      LET d     == DeclOf(j)
          calls == SfCallsFor(stack[j].handler.decl)
      IN /\ d.validate # "" => calls = {}
         /\ (d.validate = "" /\ program.config.schemaFactory) =>
              /\ Cardinality(calls) = 1
              /\ \A k \in calls :
                   sfCalls[k].schema = (IF d.schema.def THEN d.schema.keys ELSE {})
         /\ ~program.config.schemaFactory => calls = {}
         /\ (j \in RouteInvocations /\ inv[j].validations = 1) =>
              (inv[j].runs = 1 <=> Accepts(d, inv[j].extracted.map))

C9_Witness ==
  \E j \in RouteInvocations :
    /\ program.config.schemaFactory
    /\ DeclOf(j).validate # "" /\ DeclOf(j).schema.def
    /\ inv[j].extracted = Obj([a |-> 2])
    /\ inv[j].runs = 1
    /\ sfCalls = <<>>

\* C10: a route declared without schema, method and validate is not
\* validated: every request of a verb other than OPTIONS reaches `run` and is
\* never answered with 400, also when the factory has a schemaFactory.
C10_NoSchemaNoValidation ==
  \A i \in RouteInvocations :
    ( /\ ~DeclOf(i).schema.def
      /\ DeclOf(i).method = ""
      /\ DeclOf(i).validate = ""
      /\ i \notin Preflights )
    => /\ inv[i].runs = 1
       /\ inv[i].outcome # "invalid"
       /\ res.statusCode # "400"

\* the hook a declaration asks for, under the configuration of the program
EffectiveHook(d) ==
  IF d.onError THEN "local"
  ELSE IF program.config.onError THEN "global" ELSE "noop"

\* C11: the error hook called for a route is the declaration's onError when it
\* has one, else the factory's onError, else a no-op: every call of the hook
\* made by a route handler goes to that one hook, so with both configured the
\* factory's hook is never called for the route.
C11_EffectiveHook ==
  \A i \in RouteInvocations :
    \A k \in DOMAIN inv[i].hooks :
      inv[i].hooks[k].hook = EffectiveHook(DeclOf(i))

C11_Witness ==
  \E i \in RouteInvocations :
    /\ program.config.onError /\ DeclOf(i).onError
    /\ inv[i].outcome = "threw"
    /\ inv[i].hooks = <<[hook |-> "local", e |-> Err("boom"), head |-> FALSE]>>

\* the errors of invocation i, in order: the `error` of each this.error call,
\* then what the validator or `run` threw
ErrorsOf(i) ==
  [k \in DOMAIN inv[i].errorCalls |-> inv[i].errorCalls[k].error] \o
    (IF inv[i].outcome \in {"invalid", "threw"} THEN <<inv[i].thrown>> ELSE <<>>)

\* the error responses the pipeline wrote in invocation i
ErrorWrites(i) == IF inv[i].outcome \in {"ok", "preflight"} THEN 0 ELSE inv[i].writes

\* C12: for a validator failure, an exception thrown by `run` and a this.error
\* call alike, the effective hook is called once with the error, before the
\* error response is written (the hook sees the response without a head
\* whenever the pipeline then writes one); an invocation without any of these
\* errors never calls the hook.
C12_HookBeforeResponse ==
  \A i \in RouteInvocations :
    /\ Len(inv[i].hooks) = Len(ErrorsOf(i))
    /\ \A k \in DOMAIN inv[i].hooks : inv[i].hooks[k].e = ErrorsOf(i)[k]
    /\ ErrorWrites(i) = Cardinality({k \in DOMAIN inv[i].hooks : ~inv[i].hooks[k].head})

C12_Witness ==
  \E i \in RouteInvocations :
    /\ inv[i].outcome = "threw"
    /\ Len(inv[i].errorCalls) = 1
    /\ inv[i].thrown = Str("oops")
    /\ Len(inv[i].hooks) = 2
    /\ ~inv[i].hooks[1].head /\ inv[i].hooks[2].head
    /\ inv[i].writes = 1

(***************************************************************************)
(* The error responses alone: one route without validation, a `run` that   *)
(* calls this.error with every kind of argument, or throws every kind of   *)
(* value.                                                                  *)
(***************************************************************************)
ErrorValues == {Undefined, Err("boom"), Str("oops")}
InfoValues  == {Undefined, Null, False, Num("0"), Str(""), Str("why")}
ErrorArgsAll ==
  [error : ErrorValues, code : {Undefined, Num("403")},
   title : {Undefined, Str("Permission Denied")},
   description : {Undefined, Str("No token.")}, info : InfoValues]
ThrownAll == Thrown \cup {Undefined, Null, Num("0")}
ErrorPrograms == {Program(Config(FALSE, oe, <<>>), <<Plain("/p")>>) : oe \in BOOLEAN}
ErrorRequests ==
  [method : {"GET"}, path : {"/p"}, query : {Obj([a |-> 1, x |-> 1])}, body : {NoObj}]

InitError == Init /\ program \in ErrorPrograms

NextError ==
  \/ createHTTPFactory(program.config)
  \/ \E n \in DOMAIN program.declarations : routeHandler(program.declarations[n])
  \/ \E rq \in ErrorRequests : Request(rq)
  \/ handler
  \/ \E i \in Layers, a \in ErrorArgsAll : error(i, a)
  \/ \E i \in Layers, e \in ThrownAll : runThrows(i, e)
  \/ \E i \in Layers : runReturns(i, Undefined)
  \/ Finish
  \/ Close

SpecError == InitError /\ [][NextError]_vars

\* the first this.error call of invocation i was made on a response without head
FirstErrorCall(i) ==
  /\ inv[i].errorCalls # <<>>
  /\ ~inv[i].hooks[1].head

\* text of a value as a member of a JSON object
MemberText(v) ==
  CASE v.t = "string" -> "\"" \o v.s \o "\""
    [] v.t = "null"   -> "null"
    [] OTHER          -> v.s

\* the JSON text of { title, description, info }: members without a value
\* are left out
BodyOf(title, description, info) ==
  LET t  == IF title = Undefined THEN <<>> ELSE <<"\"title\":" \o MemberText(title)>>
      d  == IF description = Undefined THEN <<>>
            ELSE <<"\"description\":" \o MemberText(description)>>
      n  == IF info = Undefined THEN <<>> ELSE <<"\"info\":" \o MemberText(info)>>
      ms == t \o d \o n
  IN CASE Len(ms) = 0 -> "{}"
       [] Len(ms) = 1 -> "{" \o ms[1] \o "}"
       [] Len(ms) = 2 -> "{" \o ms[1] \o "," \o ms[2] \o "}"
       [] OTHER       -> "{" \o ms[1] \o "," \o ms[2] \o "," \o ms[3] \o "}"

\* info when it is supplied (not undefined, not null), else the message of
\* the error
InfoOrMessage(a) ==
  IF a.info \notin {Undefined, Null} THEN a.info
  ELSE IF a.error.t = "error" THEN Str(a.error.s) ELSE Undefined

\* C13: this.error({error, code, title, description, info}), called on a
\* response without head, writes status `code` (500 without a code),
\* application/json and the body {title, description, info}, info being the
\* supplied info whenever one is supplied ('' and 0 included) and the message
\* of the error only when none is supplied.
C13_ExplicitError ==
  \A i \in RouteInvocations :
    FirstErrorCall(i) =>
      LET a == inv[i].errorCalls[1] IN
      Answered(IF a.code = Undefined THEN "500" ELSE a.code.s, "application/json",
               BodyOf(a.title, a.description, InfoOrMessage(a)))

\* the values the three members of an error body can take in the model
BodyTitles == {Str("Bad Request"), Str("Internal Server Error"), Str("Permission Denied")}
BodyDescriptions ==
  {Str("Malformed query or body."), Str("An unintended error occurred."), Str("No token.")}
BodyInfos ==
  (InfoValues \ {Undefined})
    \cup {Str("boom"), Str("oops"), Str("a is required"),
          Str("Match error: Missing key"), Str("Match error: Unknown key"),
          Str("ERR_HTTP_HEADERS_SENT"), Str(TypeErrorMsg)}

\* the body is a JSON object with the members title, description and info
WellFormedErrorBody(b) ==
  \E t \in BodyTitles, d \in BodyDescriptions, n \in BodyInfos : b = BodyOf(t, d, n)

\* C20: every error response the pipeline writes (validation failure,
\* exception in `run`, this.error) has a JSON object body with the three
\* members title, description and info, whatever was thrown and whatever was
\* passed to this.error.
C20_ErrorBodyShape ==
  \A i \in RouteInvocations :
    (ErrorWrites(i) = 1 /\ res.statusCode # "200") => WellFormedErrorBody(res.body)

\* C19: no exception leaves a route handler: whatever validator, `run` and
\* hook do, also when `run` throws after calling next or after writing a
\* response and when a middleware before the route answered already, the
\* error is caught in handler and turned into a response.
C19_NothingEscapes == \A i \in RouteInvocations : ~inv[i].escaped

\* route handlers i and j were registered under the same method and path
SameRoute(i, j) ==
  /\ stack[i].handler.kind = "route" /\ stack[j].handler.kind = "route"
  /\ stack[i].path = stack[j].path
  /\ stack[i].handler.method = stack[j].handler.method

\* handler i passed control on: `run` called next, or returned undefined with
\* no headers sent
PassedOn(i) ==
  \/ inv[i].nextCalled
  \/ inv[i].ret = Undefined /\ ~inv[i].sentAtEnd

\* handler i failed validation, threw or returned a defined value
Stopped(i) ==
  \/ inv[i].outcome \in {"invalid", "threw"}
  \/ Returned(i)

LaterRuns(i) == {j \in Invocations : i < j /\ SameRoute(i, j)}

InOrder ==
  \A i, j \in DOMAIN inv :
    (i < j /\ SameRoute(i, j) /\ j \in Invocations) => (i \in Invocations /\ PassedOn(i))

\* C14 as stated: handlers of one method and path run in registration order,
\* handler k+1 only if handler k passed control on; after handler k failed
\* validation, threw or returned a defined value no later handler runs.
C14_AsStated ==
  /\ InOrder
  /\ \A i \in RouteInvocations : Stopped(i) => LaterRuns(i) = {}

\* C14: handlers of one method and path run in registration order, handler
\* k+1 only if handler k passed control on (its `run` called next, or returned
\* undefined with no headers sent); after handler k failed validation, or
\* threw or returned a defined value without having called next, no later
\* handler of the path runs.  A `run` that called next and then throws or
\* returns a value has let the later handler run.
C14_Chain ==
  /\ InOrder
  /\ \A i \in RouteInvocations :
       (Stopped(i) /\ ~inv[i].nextCalled) => LaterRuns(i) = {}

C14_Witness ==
  \E i, j \in RouteInvocations :
    /\ i < j /\ SameRoute(i, j)
    /\ inv[i].autoNext
    /\ inv[j].outcome = "ok"
    /\ res.body = "ok"

(***************************************************************************)
(* Registration and dispatch alone: factories with global middleware,      *)
(* routes with inline middleware, sibling routes, routes of every method,  *)
(* and requests of every method; `run` only returns.                       *)
(***************************************************************************)
RegisterPrograms ==
       {Program(Config(FALSE, FALSE, <<"gmw", "gmw2">>),
                <<[Plain("/p") EXCEPT !.middleware = <<"mw", "mw2">>], Plain("/q")>>)}
  \cup {Program(Config(FALSE, FALSE, <<>>),
                <<[Plain("/p") EXCEPT !.method = m, !.middleware = <<"mw">>]>>) :
          m \in httpMethods}
RegisterRequests ==
  [method : {"GET", "HEAD", "POST", "PUT", "DELETE", "OPTIONS", "TRACE", "PATCH"},
   path : Paths,
   query : {Obj([a |-> 1, x |-> 1])}, body : {Obj([a |-> 2])}]

InitRegister ==
  /\ program \in RegisterPrograms
  /\ factory = NoFactory
  /\ stack = <<>>
  /\ sfCalls = <<>>
  /\ req = NoRequest
  /\ res = NewResponse
  /\ idx = 0
  /\ call = 0
  /\ frames = <<>>
  /\ inv = <<>>
  /\ out = <<>>

NextRegister ==
  \/ createHTTPFactory(program.config)
  \/ \E n \in DOMAIN program.declarations : routeHandler(program.declarations[n])
  \/ \E rq \in RegisterRequests : Request(rq)
  \/ \E act \in MiddlewareActs : Middleware(act)
  \/ handler
  \/ \E i \in Layers, result \in {Undefined, Str("ok")} : runReturns(i, result)
  \/ Finish
  \/ Close

SpecRegister == InitRegister /\ [][NextRegister]_vars

GlobalNames == program.config.globalMiddleware

\* layer j is the middleware called name
IsMiddleware(j, name) ==
  /\ stack[j].handler.kind = "middleware"
  /\ stack[j].handler.name = name

RouteLayers == {j \in DOMAIN stack : stack[j].handler.kind = "route"}

\* the positions of the inline middleware of route layer j
InlineOf(j) == (j - Len(DeclOf(j).middleware))..(j - 1)

\* C15: every global middleware is registered exactly once, when the factory
\* is created, without path and method, on the list of the routes; on every
\* request that reaches a route (or its inline middleware) each global
\* middleware has run before it.
C15_GlobalMiddleware ==
  factory.made =>
    /\ Len(stack) >= Len(GlobalNames)
    /\ \A k \in DOMAIN GlobalNames :
         /\ IsMiddleware(k, GlobalNames[k])
         /\ stack[k].path = "" /\ stack[k].verb = "use"
         /\ \A j \in DOMAIN stack : IsMiddleware(j, GlobalNames[k]) => j = k
    /\ \A j \in RouteLayers :
         \A l \in InlineOf(j) \cup {j} :
           l \in Invocations =>
             \A k \in DOMAIN GlobalNames :
               k < l /\ inv[k].pc = "done" /\ inv[k].nexts = 1

C15_Witness ==
  \E j \in RouteInvocations :
    /\ GlobalNames = <<"gmw", "gmw2">>
    /\ DeclOf(j).middleware = <<"mw", "mw2">>
    /\ inv[1].outcome = "pass" /\ inv[2].outcome = "pass"
    /\ inv[j].outcome = "ok"

\* the framework call a declared method asks for
VerbFor(method) == IF method = "" THEN "use" ELSE method

\* the request has the declared method
OfMethod(method) == method = "" \/ toLowerCase(req.method) = method

C17_MethodRegistration ==
  \A j \in RouteLayers :
    \A l \in InlineOf(j) \cup {j} :
      /\ stack[l].verb = VerbFor(DeclOf(j).method)
      /\ l \in Invocations => OfMethod(DeclOf(j).method)

(***************************************************************************)
(* The type checks of createHTTPFactory and routeHandler, over             *)
(* configurations and declarations whose fields hold any JavaScript value. *)
(***************************************************************************)
Fn(name) == V("function", name)        \* a function, told apart by its name
True     == V("boolean", "true")

\* meteor/check patterns: String, Function, Boolean, Object (plain objects
\* only), Match.Maybe(pattern) (undefined, null, or the pattern)
MatchString(v)   == v.t = "string"
MatchFunction(v) == v.t = "function"
MatchBoolean(v)  == v.t = "boolean"
MatchObject(v)   == v.t = "object"
MatchMaybe(v, matches) == v.t \in {"undefined", "null"} \/ matches

\* Match.Where(x => !x || httpMethods.includes(x))
isMaybeHttpMethod(x) == ~Truthy(x) \/ (x.t = "string" /\ x.s \in httpMethods)

\* the functions at the head of a list of middleware values: those forEach
\* has registered when check(mw, Function) throws, or all of them
RECURSIVE FunctionPrefix(_)
FunctionPrefix(mws) ==
  IF mws = <<>> \/ ~MatchFunction(Head(mws)) THEN <<>>
  ELSE <<Head(mws).s>> \o FunctionPrefix(Tail(mws))

\* the check of createHTTPFactory that throws first, "" if none does
ConfigFault(cfg) ==
  IF ~MatchMaybe(cfg.schemaFactory, MatchFunction(cfg.schemaFactory)) THEN "schemaFactory"
  ELSE IF ~MatchMaybe(cfg.onError, MatchFunction(cfg.onError)) THEN "onError"
  ELSE IF ~MatchMaybe(cfg.isRaw, MatchBoolean(cfg.isRaw)) THEN "isRaw"
  ELSE IF Len(FunctionPrefix(cfg.globalMiddleware)) < Len(cfg.globalMiddleware)
    THEN "globalMiddleware"
  ELSE ""

\* the defaults of routeHandler's parameters: schema = {}, method = ''
SchemaOrDefault(raw) == IF raw.schema = Undefined THEN EmptyRec ELSE raw.schema
MethodOrDefault(raw) == IF raw.method = Undefined THEN Str("") ELSE raw.method

\* the check of routeHandler that throws first, "" if none does; after the
\* checks, schemaFactory(schema) is called when there is no validate, and the
\* schemaFactory called throws rejects every schema
RouteFault(raw) ==
  IF ~MatchMaybe(raw.path, MatchString(raw.path)) THEN "path"
  ELSE IF ~(IF factory.schemaFactory
              THEN MatchObject(SchemaOrDefault(raw))
              ELSE MatchMaybe(SchemaOrDefault(raw), MatchObject(SchemaOrDefault(raw))))
    THEN "schema"
  ELSE IF ~isMaybeHttpMethod(MethodOrDefault(raw)) THEN "method"
  ELSE IF ~MatchMaybe(raw.validate, MatchFunction(raw.validate)) THEN "validate"
  ELSE IF ~MatchMaybe(raw.onError, MatchFunction(raw.onError)) THEN "onError"
  ELSE IF ~MatchFunction(raw.run) THEN "run"
  ELSE IF Len(FunctionPrefix(raw.middleware)) < Len(raw.middleware) THEN "middleware"
  ELSE IF /\ ~Truthy(raw.validate) /\ factory.schemaFactory
          /\ program.config.schemaFactory = Fn("throws")
    THEN "schemaFactory"
  ELSE ""

\* variant: onError is one of the rest properties, a named middleware
CheckedHookAsMiddleware(raw) ==
  [path       |-> IF Truthy(raw.path) THEN raw.path.s ELSE "",
   method     |-> IF Truthy(MethodOrDefault(raw)) THEN raw.method.s ELSE "",
   schema     |-> IF MatchObject(SchemaOrDefault(raw)) THEN Schema({}) ELSE NoSchema,
   validate   |-> IF Truthy(raw.validate) THEN raw.validate.s ELSE "",
   onError    |-> FALSE,
   middleware |-> FunctionPrefix(raw.middleware \o <<raw.onError>>)]

\* the declaration routeHandler works with once its checks passed
Checked(raw) ==
  [path       |-> IF Truthy(raw.path) THEN raw.path.s ELSE "",
   method     |-> IF Truthy(MethodOrDefault(raw)) THEN raw.method.s ELSE "",
   schema     |-> IF MatchObject(SchemaOrDefault(raw)) THEN Schema({}) ELSE NoSchema,
   validate   |-> IF Truthy(raw.validate) THEN raw.validate.s ELSE "",
   onError    |-> Truthy(raw.onError),
   middleware |-> FunctionPrefix(raw.middleware)]

RawConfig(sf, oe, ir, gmw) ==
  [schemaFactory |-> sf, onError |-> oe, isRaw |-> ir, globalMiddleware |-> gmw]
RawPlain ==
  [path |-> Str("/p"), schema |-> Undefined, method |-> Undefined, run |-> Fn("run"),
   validate |-> Undefined, onError |-> Undefined, middleware |-> <<>>]

RawConfigs ==
  {RawConfig(sf, oe, ir, gmw) :
     sf \in {Undefined, Null, Fn("schemaFactory"), Fn("throws"), Str("x")},
     oe \in {Undefined, Fn("onError"), Num("1")},
     ir \in {Undefined, True, Str("yes")},
     gmw \in {<<>>, <<Fn("gmw")>>, <<Fn("gmw"), Str("x")>>, <<Fn("gmw"), True>>}}
RawDeclarations ==
  [path       : {Undefined, Null, Str("/p"), Num("1")},
   schema     : {Undefined, Null, EmptyRec, Str("x")},
   method     : {Undefined, Null, False, Num("0"), Str("get"), Str("fetch")},
   run        : {Undefined, Fn("run"), Str("x")},
   validate   : {Undefined, Null, Fn("requireA"), Str("x")},
   onError    : {Undefined, Fn("onError"), Str("x")},
   middleware : {<<>>, <<Fn("mw")>>, <<Fn("mw"), Undefined>>, <<Str("x")>>, <<True>>}]
RawPrograms ==
       {Program(cfg, <<RawPlain>>) : cfg \in RawConfigs}
  \cup {Program(RawConfig(sf, Undefined, Undefined, <<>>), <<raw>>) :
          sf \in {Undefined, Fn("schemaFactory"), Fn("throws")}, raw \in RawDeclarations}

\* `factory` also records the registration calls made: tried (createHTTPFactory
\* was called), fault (the check that threw in it), faults (per routeHandler
\* call, the check that threw, "" if it returned), and app, the handler list
\* chosen by isRaw ? WebApp.rawConnectHandlers : WebApp.connectHandlers.
\* The properties of a configuration or declaration beyond the named ones
\* are its globalMiddleware / middleware values, in order: { simpleAuth, raw:
\* true } is <<Fn("gmw"), True>>.
InitCheck ==
  /\ program \in RawPrograms
  /\ factory = [made |-> FALSE, schemaFactory |-> FALSE, onError |-> FALSE,
                tried |-> FALSE, fault |-> "", faults |-> <<>>, app |-> ""]
  /\ stack = <<>>
  /\ sfCalls = <<>>
  /\ req = NoRequest
  /\ res = NewResponse
  /\ idx = 0
  /\ call = 0
  /\ frames = <<>>
  /\ inv = <<>>
  /\ out = <<>>

\* createHTTPFactory(cfg), checks included
createHTTPFactoryChecked(cfg) ==
  /\ ~factory.tried
  /\ cfg = program.config
  /\ LET fault == ConfigFault(cfg) IN
       /\ factory' = [factory EXCEPT
                        !.tried = TRUE, !.fault = fault, !.made = (fault = ""),
                        !.app = IF fault \in {"schemaFactory", "onError", "isRaw"} THEN ""
                                ELSE IF Truthy(cfg.isRaw) THEN "rawConnectHandlers"
                                ELSE "connectHandlers",
                        !.schemaFactory = (fault = "" /\ Truthy(cfg.schemaFactory)),
                        !.onError = (fault = "" /\ Truthy(cfg.onError))]
       /\ stack' = IF fault \in {"", "globalMiddleware"}
                     THEN stack \o RegisterAll(FunctionPrefix(cfg.globalMiddleware), "", "")
                     ELSE stack
  /\ UNCHANGED <<program, sfCalls, req, res, idx, call, frames, inv, out>>

\* routeHandler(raw), checks included
routeHandlerChecked(raw) ==
  /\ factory.made
  /\ Len(factory.faults) < Len(program.declarations)
  /\ raw = program.declarations[Len(factory.faults) + 1]
  /\ LET fault == RouteFault(raw)
         n == Len(factory.faults) + 1
         d == Checked(raw)
         schema  == IF d.schema.def THEN d.schema.keys ELSE {}
         route   == [kind |-> "route", name |-> d.validate, validator |-> ValidatorOf(d),
                     schema |-> schema, hook |-> HookOf(d), method |-> d.method,
                     path |-> d.path, decl |-> n]
     IN /\ factory' = [factory EXCEPT !.faults = Append(@, fault)]
        /\ stack' = IF fault = ""
                      THEN stack \o RegisterAll(d.middleware, d.path, d.method)
                                 \o <<registerHandler(d.path, d.method, route)>>
                    ELSE IF fault \in {"middleware", "schemaFactory"}
                      THEN stack \o RegisterAll(d.middleware, d.path, d.method)
                    ELSE stack
        /\ sfCalls' = IF fault \in {"", "schemaFactory"} /\ ValidatorOf(d) = "schema"
                         THEN Append(sfCalls, [decl |-> n, schema |-> schema])
                         ELSE sfCalls
  /\ UNCHANGED <<program, req, res, idx, call, frames, inv, out>>

NextCheck ==
  \/ createHTTPFactoryChecked(program.config)
  \/ \E n \in DOMAIN program.declarations : routeHandlerChecked(program.declarations[n])

SpecCheck == InitCheck /\ [][NextCheck]_vars

\* a field is given when it is neither undefined nor null
Given(v) == v.t \notin {"undefined", "null"}
WrongConfig(cfg) ==
  \/ Given(cfg.schemaFactory) /\ ~MatchFunction(cfg.schemaFactory)
  \/ Given(cfg.onError) /\ ~MatchFunction(cfg.onError)
  \/ \E k \in DOMAIN cfg.globalMiddleware : ~MatchFunction(cfg.globalMiddleware[k])
WrongFieldsButMethod(raw) ==
  \/ Given(raw.path) /\ ~MatchString(raw.path)
  \/ Given(raw.schema) /\ ~MatchObject(raw.schema)
  \/ Given(raw.validate) /\ ~MatchFunction(raw.validate)
  \/ Given(raw.onError) /\ ~MatchFunction(raw.onError)
  \/ ~MatchFunction(raw.run)
  \/ \E k \in DOMAIN raw.middleware : ~MatchFunction(raw.middleware[k])
MethodOutside(raw) ==
  Given(raw.method) /\ ~(raw.method.t = "string" /\ raw.method.s \in httpMethods \cup {""})
RouteRegistered(n) ==
  \E j \in 1..Len(stack) : stack[j].handler.kind = "route" /\ stack[j].handler.decl = n

\* C18: a configuration or a declaration with a wrongly typed field (path
\* not a string, method outside the enumeration, schema not an object,
\* validate or onError not a function, run not a function, a middleware not
\* a function) makes the registration call throw, and no route handler is
\* registered by that call.
C18_Rejected ==
  /\ (factory.tried /\ WrongConfig(program.config)) =>
       (factory.fault # "" /\ ~factory.made /\ ~\E n \in 1..1 : RouteRegistered(n))
  /\ \A n \in 1..Len(factory.faults) :
       (WrongFieldsButMethod(program.declarations[n]) \/ MethodOutside(program.declarations[n]))
         => (factory.faults[n] # "" /\ ~RouteRegistered(n))

\* the property raw: true among the properties of a configuration or declaration
HasRawTrue(rest) == \E k \in DOMAIN rest : rest[k] = True

\* C21: raw: true, in the options of createHTTPFactory next to a global
\* middleware or in a route declaration, is accepted, and the handlers are
\* attached to WebApp.rawConnectHandlers.
C21_RawOption ==
  /\ (factory.tried /\ HasRawTrue(program.config.globalMiddleware)) =>
       (factory.fault = "" /\ factory.app = "rawConnectHandlers")
  /\ \A n \in 1..Len(factory.faults) :
       HasRawTrue(program.declarations[n].middleware) =>
         (factory.faults[n] = "" /\ RouteRegistered(n)
            /\ factory.app = "rawConnectHandlers")

(***************************************************************************)
(* this.data alone: requests of every method the per-method rule           *)
(* distinguishes, sent to one route handler whose `run` calls this.data    *)
(* with and without a value.                                               *)
(***************************************************************************)
DataValues == {EmptyMap, [a |-> 3], [z |-> 3]}

\* the startup programs of the specifications about this.data and about
\* asynchronous work: one plain route, or two on one path
InitPlain ==
  /\ program \in {Program(Config(FALSE, FALSE, <<>>), <<Plain("/p")>>),
                  Program(Config(FALSE, FALSE, <<>>), <<Plain("/p"), Plain("/p")>>)}
  /\ factory = NoFactory
  /\ stack = <<>>
  /\ sfCalls = <<>>
  /\ req = NoRequest
  /\ res = NewResponse
  /\ idx = 0
  /\ call = 0
  /\ frames = <<>>
  /\ inv = <<>>
  /\ out = <<>>

\* this.data('x'): a truthy value that is no plain object; check(value,
\* Object) throws before addRequestParams is called
dataNoObject(i) ==
  /\ Running(i)
  /\ CanCall
  /\ Throws(i, Op(inv[i]), Err("Match error: Expected plain object"))
  /\ UNCHANGED <<program, factory, stack, sfCalls, req>>

NextData ==
  \/ createHTTPFactory(program.config)
  \/ \E n \in DOMAIN program.declarations : routeHandler(program.declarations[n])
  \/ \E rq \in [method : {"GET", "POST", "PUT", "PATCH", "DELETE", "HEAD", "post"},
                 path : {"/p"},
                 query : {NoObj, Obj([a |-> 1, x |-> 1])},
                 body : {NoObj, Obj([a |-> 2, y |-> 2])}] : Request(rq)
  \/ handler
  \/ \E i \in Layers, value \in DataValues : data(i, value)
  \/ \E i \in Layers : dataRead(i)
  \/ \E i \in Layers : dataNoObject(i)
  \/ \E i \in Layers : runReturns(i, Undefined)
  \/ Finish
  \/ Close

SpecData == InitPlain /\ [][NextData]_vars

\* Object.assign's result, stated on the keys
Assigned(target, value) ==
  [k \in (DOMAIN target) \cup (DOMAIN value) |->
     IF k \in DOMAIN value THEN value[k] ELSE target[k]]

\* C23: a this.data(value) call with an object that returns writes value
\* into the raw request by the rule of the request method and changes
\* nothing else: POST, PUT, PATCH update req.body only, GET updates
\* req.query only, every other method updates both, and the mapping the call
\* returns is the updated body, the updated query, or the merge of the
\* updated query then the updated body.
C23_DataFrame ==
  [][\A i \in DOMAIN inv : \A value \in DataValues :
       (data(i, value) /\ inv'[i].pc = "run") =>
         /\ req'.method = req.method /\ req'.path = req.path
         /\ res' = res /\ call' = call /\ idx' = idx /\ out' = out
         /\ \A j \in DOMAIN inv : j # i => inv'[j] = inv[j]
         /\ inv'[i].nextCalled = inv[i].nextCalled
         /\ CASE req.method \in {"POST", "post", "PUT", "PATCH"} ->
                   /\ req'.body = Obj(Assigned(req.body.map, value))
                   /\ req'.query = req.query
                   /\ ParamsOf(inv'[i], req') = req'.body.map
              [] req.method = "GET" ->
                   /\ req'.query = Obj(Assigned(req.query.map, value))
                   /\ req'.body = req.body
                   /\ ParamsOf(inv'[i], req') = req'.query.map
              [] OTHER ->
                   /\ req'.query = Obj(Assigned(req.query.map, value))
                   /\ req'.body = Obj(Assigned(req.body.map, value))
                   /\ ParamsOf(inv'[i], req') = Merged(req')]_vars

C23_Witness ==
  \E i \in RouteInvocations :
    /\ req.method = "PUT"
    /\ inv[i].pc = "run" /\ inv[i].given = [z |-> 3]
    /\ req.query = Obj([a |-> 1, x |-> 1])
    /\ req.body = Obj([a |-> 2, y |-> 2, z |-> 3])

\* C24: reading the parameters has no side effect on the raw request: the
\* extraction at the entry of handler and every this.data() call leave
\* req.query and req.body as they are; this.data() returns the current
\* mapping (the extracted parameters with the values given to this.data
\* since), changes nothing a later this.data() depends on, and so returns
\* the same mapping when called again.
C24_ReadOnly ==
  [][/\ handler => req' = req
     /\ \A i \in DOMAIN inv :
          dataRead(i) =>
            /\ req' = req /\ res' = res
            /\ inv'[i].lastRead = Obj(Assigned(inv[i].extracted.map, inv[i].given))
            /\ ParamsOf(inv'[i], req') = inv'[i].lastRead.map
            /\ inv' = [inv EXCEPT ![i].lastRead = inv'[i].lastRead]]_vars

C24_Witness ==
  \E i \in RouteInvocations :
    /\ req.method = "GET"
    /\ inv[i].pc = "run" /\ inv[i].given = [z |-> 3]
    /\ inv[i].lastRead = Obj([a |-> 1, x |-> 1, z |-> 3])
    /\ req.query = Obj([a |-> 1, x |-> 1, z |-> 3])

(***************************************************************************)
(* Error hooks that throw: one validated route, with the hook of the       *)
(* declaration or of the factory, which returns or throws.                 *)
(***************************************************************************)
InitHook ==
  /\ program \in
       {[config |-> Config(FALSE, g, <<>>),
         declarations |-> <<[Plain("/p") EXCEPT !.validate = "requireA", !.onError = l]>>,
         hookThrows |-> t] : g \in BOOLEAN, l \in BOOLEAN, t \in BOOLEAN}
  /\ factory = NoFactory
  /\ stack = <<>>
  /\ sfCalls = <<>>
  /\ req = NoRequest
  /\ res = NewResponse
  /\ idx = 0
  /\ call = 0
  /\ frames = <<>>
  /\ inv = <<>>
  /\ out = <<>>

NextHook ==
  \/ createHTTPFactory(program.config)
  \/ \E n \in DOMAIN program.declarations : routeHandler(program.declarations[n])
  \/ \E rq \in [method : {"GET"}, path : {"/p"},
                 query : {Obj(EmptyMap), Obj([a |-> 1, x |-> 1])},
                 body : {NoObj}] : Request(rq)
  \/ handler
  \/ \E i \in Layers, a \in ErrorArgs : error(i, a)
  \/ \E i \in Layers, e \in Thrown : runThrows(i, e)
  \/ \E i \in Layers, result \in {Undefined, Str("ok")} : runReturns(i, result)
  \/ Finish
  \/ Close

SpecHook == InitHook /\ [][NextHook]_vars

\* C25: whether the effective error hook returns or throws, it is called
\* and the error response is written all the same: 400 with the validator's
\* message for a validation failure, 500 with the message of the Error `run`
\* threw (no head written before), and the caller's code and members for a
\* this.error call; the exception of the hook never leaves handler.
C25_HookThrows ==
  \A i \in RouteInvocations :
    /\ ValidatorThrew(i) =>
         (Answers400(i) /\ Len(inv[i].hooks) = 1 /\ ~inv[i].escaped)
    /\ (RunThrewError(i) /\ ~inv[i].headAtEnd) =>
         (Answers500(i) /\ Len(inv[i].hooks) = 1 /\ ~inv[i].escaped)
    /\ (FirstErrorCall(i) /\ inv[i].pc = "run") =>
         LET a == inv[i].errorCalls[1] IN
         /\ Answered(a.code.s, "application/json",
                     BodyOf(a.title, a.description, InfoOrMessage(a)))
         /\ Len(inv[i].hooks) = Len(inv[i].errorCalls)

C25_Witness ==
  \E i \in RouteInvocations :
    /\ HookFails(stack[i].handler)
    /\ inv[i].hooks = <<[hook |-> "global", e |-> Err("a is required"), head |-> FALSE]>>
    /\ Answers400(i)

\* the inline middleware invocations that threw, with their route layer
InlineThrows ==
  {<<l, j>> \in Invocations \X RouteLayers :
     l \in InlineOf(j) /\ inv[l].outcome = "throw"}

ErrorCallStep(i) ==
  /\ i \in DOMAIN inv /\ i \in DOMAIN inv'
  /\ Len(inv'[i].errorCalls) = Len(inv[i].errorCalls) + 1

\* C27: this.error never throws and leaves the response finalized, in every
\* state of the response in which `run` can call it (head already written
\* by `run`, continuation already invoked, second this.error call): the call
\* returns into `run`; and once it returned, the end of `run` makes the
\* pipeline write nothing more and not invoke the continuation.
C27_ErrorNeverThrows ==
  [][\A i \in DOMAIN inv :
       /\ ErrorCallStep(i) =>
            (inv'[i].pc = "run" /\ res'.finished /\ ~inv'[i].escaped)
       /\ ( /\ i \in DOMAIN inv'
            /\ inv[i].errorCalls # <<>>
            /\ inv[i].pc = "run" /\ inv'[i].pc = "done"
            /\ inv'[i].ret # NoValue )
          => (res' = res /\ ~inv'[i].autoNext /\ inv'[i].nexts = inv[i].nexts)]_vars

\* C28: when an invocation of a route handler has ended, a response was
\* written for the request (the response is finished, whoever wrote it) or
\* the invocation invoked the continuation; it never ends with neither.
C28_RespondedOrPassed ==
  \A i \in RouteInvocations :
    inv[i].pc = "done" => (res.finished \/ inv[i].nexts > 0)

(***************************************************************************)
(* A `run` with asynchronous work: it returns a pending promise (or a      *)
(* value, or nothing) and may call the continuation or end the response    *)
(* before it returns and, when pending, after handler returned.            *)
(***************************************************************************)
NextAsync ==
  \/ createHTTPFactory(program.config)
  \/ \E n \in DOMAIN program.declarations : routeHandler(program.declarations[n])
  \/ \E rq \in [method : {"GET", "POST", "DELETE"}, path : {"/p"},
                 query : {Obj([a |-> 1, x |-> 1])},
                 body : {NoObj, Obj([a |-> 2])}] : Request(rq)
  \/ handler
  \/ \E i \in Layers : nextWrapper(i)
  \/ \E i \in Layers : resEnd(i)
  \/ \E i \in Layers, result \in {Undefined, Pending, Str("ok")} : runReturns(i, result)
  \/ \E i \in Layers : nextWrapperLater(i)
  \/ \E i \in Layers : resEndLater(i)
  \/ Finish
  \/ Close

SpecAsync == InitPlain /\ [][NextAsync]_vars

\* C29: handler decides once, in the step in which `run` returns, on the
\* value returned and on nextCalled and res._headerSent as they are then:
\* nothing when next was called or the head was sent, the continuation for
\* undefined, and 200 for any other value, a pending promise included (its
\* EJSON text is {}); whatever `run` does after handler returned, the
\* decision, the writes of the pipeline and its call of next stay as they
\* are.
C29_DecidedOnce ==
  [][\A i \in DOMAIN inv :
       i \in DOMAIN inv' =>
         /\ (inv[i].pc = "run" /\ inv'[i].pc = "done" /\ inv'[i].ret # NoValue) =>
              IF inv[i].nextCalled \/ res.headerSent
                THEN inv'[i].outcome = "skip" /\ res' = res /\ ~inv'[i].autoNext
              ELSE IF inv'[i].ret = Undefined
                THEN inv'[i].outcome = "pass" /\ res' = res /\ inv'[i].autoNext
              ELSE /\ inv'[i].outcome = "ok" /\ ~inv'[i].autoNext
                   /\ ~res.header =>
                        /\ res'.finished /\ res'.statusCode = "200"
                        /\ res'.body = IF inv'[i].ret = Pending THEN "{}"
                                       ELSE inv'[i].ret.s
         /\ inv[i].pc = "done" =>
              /\ inv'[i].pc = "done"
              /\ inv'[i].outcome = inv[i].outcome
              /\ inv'[i].ret = inv[i].ret
              /\ inv'[i].writes = inv[i].writes
              /\ inv'[i].autoNext = inv[i].autoNext]_vars

C29_Witness ==
  \E i \in RouteInvocations :
    /\ inv[i].ret = Pending
    /\ inv[i].outcome = "ok" /\ inv[i].writes = 1
    /\ res.statusCode = "200" /\ res.body = "{}"
    /\ inv[i].nextCalled /\ inv[i].nexts = 1 /\ ~inv[i].autoNext

\* invocation i ended in a failure: the validator or `run` threw
Failed(i) == inv[i].outcome \in {"invalid", "threw"}

\* C30: within one invocation nothing is retried and the order is fixed:
\* the parameters are extracted once, the validator is invoked at most once,
\* `run` at most once and only after the validator returned normally on the
\* mapping extracted, which is the mapping the first this.data() returns;
\* and every failure ends the invocation with an error response (400 for
\* the validator, 500 for `run`) written by the pipeline before handler
\* returns.
C30_FixedOrder ==
  \A i \in RouteInvocations :
    /\ inv[i].extracts <= 1 /\ inv[i].validations <= 1 /\ inv[i].runs <= 1
    /\ inv[i].runs <= inv[i].validations /\ inv[i].validations <= inv[i].extracts
    /\ inv[i].runs = 1 =>
         (inv[i].outcome # "invalid"
            /\ validateFn(stack[i].handler, inv[i].extracted.map).ok)
    /\ inv[i].outcome = "invalid" =>
         (inv[i].runs = 0 /\ ~validateFn(stack[i].handler, inv[i].extracted.map).ok)
    /\ (inv[i].lastRead.def /\ inv[i].ref = "own" /\ inv[i].given = EmptyMap) =>
         inv[i].lastRead = inv[i].extracted
    /\ Failed(i) =>
         /\ inv[i].pc = "done" /\ ~inv[i].escaped
         /\ res.finished
         /\ inv[i].outcome = "invalid" => (inv[i].writes = 1 /\ res.statusCode = "400")
         /\ (inv[i].outcome = "threw" /\ inv[i].errorCalls = <<>>) =>
              (inv[i].writes = 1 /\ res.statusCode = "500")

(***************************************************************************)
(* Two requests in flight.  A handler runs in a fiber and `run` may yield  *)
(* between any two of its calls, so the calls of the two requests          *)
(* interleave freely; the entry of handler up to the call of `run`, each   *)
(* call of `run`, and its return with the rest of handler are one step     *)
(* each.  In this specification                                            *)
(*   req, res, call, idx, out   are pairs, one per request;                *)
(*   inv     maps a cell to the variables handler declares with let:       *)
(*           requestParams (ref, of, own) and nextCalled; a cell is the    *)
(*           scope in which they live;                                     *)
(*   frames  maps an invocation <<layer, request>> to its progress and to  *)
(*           what it observed: pc, ops, lastRead (what this.data()         *)
(*           returned), outcome (what handler did when `run` returned),    *)
(*           and alone, expectRead, expectOutcome: the same variables and  *)
(*           observations as they follow from the calls of this            *)
(*           invocation alone.                                             *)
(***************************************************************************)
Rs == 1..2
TwoLayers == 1..2

\* variant: the variables are declared in routeHandler, one scope per
\* registered handler
CellPerHandler(l, r) == <<l, 0>>

\* requestParams, result, nextCalled, nextWrapper and environment are
\* declared inside handler: one scope per call of handler
Cell(l, r) == <<l, r>>

NoCell == [ref |-> "own", of |-> 0, own |-> EmptyMap, nextCalled |-> FALSE]

\* the object requestParams refers to
ParamsOfCell(c) ==
  CASE c.ref = "query" -> req[c.of].query.map
    [] c.ref = "body"  -> req[c.of].body.map
    [] OTHER           -> c.own

\* the requests r can be: the first one is a GET
TwoRequests(r) ==
  [method : IF r = 1 THEN {"GET"} ELSE {"GET", "DELETE"}, path : {"/p"},
   query : {Obj([a |-> 1, x |-> 1])}, body : {Obj([a |-> 2])}]

InitTwo ==
  /\ program = Program(Config(FALSE, FALSE, <<>>), <<Plain("/p"), Plain("/p")>>)
  /\ factory = NoFactory
  /\ stack = <<>>
  /\ sfCalls = <<>>
  /\ req = [r \in Rs |-> NoRequest]
  /\ res = [r \in Rs |-> NewResponse]
  /\ idx = [r \in Rs |-> 0]
  /\ call = [r \in Rs |-> 0]
  /\ out = [r \in Rs |-> <<>>]
  /\ inv = [c \in TwoLayers \X (0..2) |-> NoCell]
  /\ frames = [k \in TwoLayers \X Rs |->
                 [pc |-> "idle", ops |-> 0, alone |-> NoCell,
                  lastRead |-> NoObj, expectRead |-> NoObj,
                  outcome |-> "", expectOutcome |-> ""]]

\* next() of request r: [call, idx, out]
ContinuationOf(r) ==
  LET j == NextLayer(idx[r], req[r]) IN
  IF j = 0 THEN [call |-> 0, idx |-> Len(stack), out |-> Append(out[r], "notfound")]
           ELSE [call |-> j, idx |-> j, out |-> out[r]]

\* request r arrives
Arrive(r, rq) ==
  /\ factory.made
  /\ NumRoutes = Len(program.declarations)
  /\ req[r] = NoRequest
  /\ req' = [req EXCEPT ![r] = rq]
  /\ LET j == NextLayer(0, rq) IN
       /\ call' = [call EXCEPT ![r] = j]
       /\ idx' = [idx EXCEPT ![r] = IF j = 0 THEN Len(stack) ELSE j]
       /\ out' = [out EXCEPT ![r] = IF j = 0 THEN <<"notfound">> ELSE <<>>]
  /\ UNCHANGED <<program, factory, stack, sfCalls, res, inv, frames>>

\* the invocation of layer l for request r may make one more call
Runs(l, r) ==
  /\ call[r] = 0
  /\ frames[<<l, r>>].pc = "run"

\* the `run` functions may make one more call
MayCall(r) ==
  frames[<<1, 1>>].ops + frames[<<2, 1>>].ops
    + frames[<<1, 2>>].ops + frames[<<2, 2>>].ops < MaxRunOps

\* handler(req, res, next) for request r, up to the call of `run`
handlerOf(r) ==
  /\ call[r] # 0
  /\ LET l == call[r]
         h == stack[l].handler
         requestParams == getRequestParams(req[r])
         v == validateFn(h, requestParams)
         he == handleError(res[r], BadRequest(v.error))
         c == [ref |-> "own", of |-> r, own |-> requestParams, nextCalled |-> FALSE]
     IN IF v.ok
          THEN /\ inv' = [inv EXCEPT ![Cell(l, r)] = c]
               /\ frames' = [frames EXCEPT ![<<l, r>>] =
                               [@ EXCEPT !.pc = "run", !.alone = c]]
               /\ UNCHANGED <<res, out>>
          ELSE /\ inv' = [inv EXCEPT ![Cell(l, r)] =
                            [@ EXCEPT !.ref = "own", !.of = r, !.own = requestParams]]
               /\ frames' = [frames EXCEPT ![<<l, r>>] =
                               [@ EXCEPT !.pc = "done", !.outcome = "invalid",
                                         !.expectOutcome = "invalid"]]
               /\ res' = [res EXCEPT ![r] = he.res]
               /\ out' = [out EXCEPT ![r] = IF he.ok THEN @ ELSE Append(@, "error")]
  /\ call' = [call EXCEPT ![r] = 0]
  /\ UNCHANGED <<program, factory, stack, sfCalls, req, idx>>

\* this.data(value) in the `run` of layer l serving request r
dataOf(l, r) ==
  /\ Runs(l, r)
  /\ MayCall(r)
  /\ LET a == addRequestParams(req[r], IF r = 1 THEN [a |-> 3] ELSE [z |-> 4])
         set(c) == [c EXCEPT !.ref = a.ref, !.of = r, !.own = a.own]
         \* the call threw: catch (invocationError) of handler
         he == handleError(res[r], InternalServerError(Err(TypeErrorMsg)))
     IN /\ req' = [req EXCEPT ![r] = a.req]
        /\ IF a.ok
             THEN /\ inv' = [inv EXCEPT ![Cell(l, r)] = set(@)]
                  /\ frames' = [frames EXCEPT ![<<l, r>>] =
                                  [@ EXCEPT !.ops = @ + 1, !.alone = set(@)]]
                  /\ UNCHANGED <<res, out>>
             ELSE /\ res' = [res EXCEPT ![r] = he.res]
                  /\ out' = [out EXCEPT ![r] =
                               IF he.ok THEN @ ELSE Append(@, "error")]
                  /\ frames' = [frames EXCEPT ![<<l, r>>] =
                                  [@ EXCEPT !.pc = "done", !.ops = @ + 1,
                                            !.outcome = "threw",
                                            !.expectOutcome = "threw"]]
                  /\ inv' = inv
  /\ UNCHANGED <<program, factory, stack, sfCalls, idx, call>>

\* this.data() in the `run` of layer l serving request r
dataReadOf(l, r) ==
  /\ Runs(l, r)
  /\ frames' = [frames EXCEPT ![<<l, r>>] =
                  [@ EXCEPT !.lastRead = Obj(ParamsOfCell(inv[Cell(l, r)])),
                            !.expectRead = Obj(ParamsOfCell(frames[<<l, r>>].alone))]]
  /\ UNCHANGED <<program, factory, stack, sfCalls, req, res, idx, call, inv, out>>

\* nextWrapper() in the `run` of layer l serving request r
nextWrapperOf(l, r) ==
  /\ Runs(l, r)
  /\ MayCall(r)
  /\ LET c == ContinuationOf(r) IN
       /\ call' = [call EXCEPT ![r] = c.call]
       /\ idx' = [idx EXCEPT ![r] = c.idx]
       /\ out' = [out EXCEPT ![r] = c.out]
  /\ inv' = [inv EXCEPT ![Cell(l, r)] = [@ EXCEPT !.nextCalled = TRUE]]
  /\ frames' = [frames EXCEPT ![<<l, r>>] =
                  [@ EXCEPT !.ops = @ + 1, !.alone = [@ EXCEPT !.nextCalled = TRUE]]]
  /\ UNCHANGED <<program, factory, stack, sfCalls, req, res>>

\* `run` of layer l serving request r returns result: the rest of handler
runReturnsOf(l, r, result) ==
  /\ Runs(l, r)
  /\ LET f == finalize(inv[Cell(l, r)].nextCalled, res[r].headerSent, result)
         g == finalize(frames[<<l, r>>].alone.nextCalled, res[r].headerSent, result)
         w == writeHead(res[r], "200", JsonType)
         c == ContinuationOf(r)
     IN /\ frames' = [frames EXCEPT ![<<l, r>>] =
                        [@ EXCEPT !.pc = "done", !.outcome = f, !.expectOutcome = g]]
        /\ IF f = "pass"
             THEN /\ call' = [call EXCEPT ![r] = c.call]
                  /\ idx' = [idx EXCEPT ![r] = c.idx]
                  /\ out' = [out EXCEPT ![r] = c.out]
                  /\ res' = res
             ELSE /\ res' = IF f = "respond" /\ w.ok
                              THEN [res EXCEPT ![r] = end(w.res, successBody(result))]
                              ELSE res
                  /\ out' = IF f = "respond" /\ ~w.ok
                              THEN [out EXCEPT ![r] = Append(@, "error")] ELSE out
                  /\ UNCHANGED <<call, idx>>
  /\ UNCHANGED <<program, factory, stack, sfCalls, req, inv>>

\* connect's final handler for request r
FinishOf(r) ==
  /\ call[r] = 0
  /\ \A l \in TwoLayers : frames[<<l, r>>].pc # "run"
  /\ out[r] # <<>>
  /\ res' = [res EXCEPT ![r] = FinalHandler(res[r], out[r])]
  /\ out' = [out EXCEPT ![r] = <<>>]
  /\ UNCHANGED <<program, factory, stack, sfCalls, req, idx, call, frames, inv>>

NextTwo ==
  \/ createHTTPFactory(program.config)
  \/ \E n \in DOMAIN program.declarations : routeHandler(program.declarations[n])
  \/ \E r \in Rs : \E rq \in TwoRequests(r) : Arrive(r, rq)
  \/ \E r \in Rs : handlerOf(r)
  \/ \E l \in TwoLayers, r \in Rs : dataOf(l, r)
  \/ \E l \in TwoLayers, r \in Rs : dataReadOf(l, r)
  \/ \E l \in TwoLayers, r \in Rs : nextWrapperOf(l, r)
  \/ \E l \in TwoLayers, r \in Rs, result \in {Undefined, Str("ok")} : runReturnsOf(l, r, result)
  \/ \E r \in Rs : FinishOf(r)

SpecTwo == InitTwo /\ [][NextTwo]_vars

\* C22: with two requests in flight, on one route handler or on the two
\* handlers registered from one declaration, in every interleaving: what
\* this.data() returns to an invocation and what handler decides when its
\* `run` returns are what the calls of that invocation alone (and the raw
\* request of its own chain) make them; a this.data(v) call, a continuation
\* call or a result of the other request never shows.
C22_Isolation ==
  \A k \in TwoLayers \X Rs :
    /\ frames[k].lastRead = frames[k].expectRead
    /\ frames[k].outcome = frames[k].expectOutcome
    /\ frames[k].pc # "idle" => inv[Cell(k[1], k[2])].of = k[2]

C22_Witness ==
  /\ frames[<<1, 1>>].pc = "run" /\ frames[<<1, 2>>].pc = "run"
  /\ frames[<<2, 2>>].pc = "run"
  /\ frames[<<1, 1>>].lastRead = Obj([a |-> 3, x |-> 1])
  /\ inv[Cell(1, 2)].nextCalled /\ ~inv[Cell(1, 1)].nextCalled
  /\ frames[<<2, 2>>].lastRead = Obj([a |-> 1, x |-> 1])

\* the layer of the route handler registered by the n-th routeHandler call
RouteLayerOf(n) == CHOOSE j \in RouteLayers : stack[j].handler.decl = n
NoHookLayer == \A j \in DOMAIN stack : ~IsMiddleware(j, "onError")

webappParams(method, rq) ==
  CASE toLowerCase(method) = "post" -> rq.body
    [] toLowerCase(method) = "get"  -> rq.query
    [] OTHER -> Obj(ObjectAssign(ObjectAssign(EmptyMap, SourceOf(rq.query)),
                                 SourceOf(rq.body)))

\* handler(req, res, next) of the variant from its entry to the call of `run`
webappHandler ==
  /\ call # 0
  /\ stack[call].handler.kind = "route"
  /\ LET i == call
         h == stack[i].handler
     IN IF isPreflight(req)
          THEN LET w == writeHead(res, "200", "") IN
               /\ res' = IF w.ok THEN end(w.res, "") ELSE res
               /\ inv' = [inv EXCEPT ![i] =
                            [@ EXCEPT !.pc = "done", !.outcome = "preflight",
                                      !.headAtEntry = res.header,
                                      !.writes = IF w.ok THEN 1 ELSE 0,
                                      !.escaped = ~w.ok]]
               /\ out' = IF w.ok THEN out ELSE Append(out, "error")
               /\ frames' = frames
          ELSE LET requestParams == webappParams(h.method, req)
                   v == validateFn(h, SourceOf(requestParams))
                   he == handleError(res, BadRequest(v.error))
                   entered == [inv[i] EXCEPT !.own = requestParams.map,
                                             !.headAtEntry = res.header,
                                             !.extracted = requestParams,
                                             !.extracts = 1, !.validations = 1]
               IN IF v.ok
                    THEN /\ inv' = [inv EXCEPT ![i] =
                                      [entered EXCEPT !.pc = "run", !.runs = 1]]
                         /\ frames' = Append(frames, i)
                         /\ res' = res
                         /\ out' = out
                    ELSE /\ inv' = [inv EXCEPT ![i] =
                                      [entered EXCEPT
                                         !.pc = "done", !.outcome = "invalid",
                                         !.thrown = v.error,
                                         !.writes = IF he.ok THEN 1 ELSE 0,
                                         !.escaped = ~he.ok]]
                         /\ res' = he.res
                         /\ out' = IF he.ok THEN out ELSE Append(out, "error")
                         /\ frames' = frames
  /\ call' = 0
  /\ UNCHANGED <<program, factory, stack, sfCalls, req, idx>>

\* variant: an undefined result passes on, as in http-factory.js
webappFinalizePasses(nextCalled, headerSent, result) ==
  IF nextCalled \/ headerSent THEN "skip"
  ELSE IF TypeOf(result) = "undefined" THEN "pass"
  ELSE "respond"

\* if (nextCalled || res._headerSent) return; res.writeHead(200, ...)
webappFinalize(nextCalled, headerSent, result) ==
  IF nextCalled \/ headerSent THEN "skip" ELSE "respond"

\* `run` returns result: the rest of the variant's handler.  The body is
\* result, or JSON.stringify(result) when it is no string; res.end(undefined)
\* sends no body.
webappReturns(i, result) ==
  /\ Running(i)
  /\ LET iv == [inv[i] EXCEPT !.pc = "done", !.ret = result,
                              !.headAtEnd = res.header, !.sentAtEnd = res.headerSent]
         w  == writeHead(res, "200", JsonType)
         c  == Continuation(out)
         f  == webappFinalize(iv.nextCalled, res.headerSent, result)
     IN IF f = "skip"
          THEN /\ inv' = [inv EXCEPT ![i] = [iv EXCEPT !.outcome = "skip"]]
               /\ UNCHANGED <<res, out, call, idx>>
          ELSE IF f = "pass"
            THEN /\ inv' = [inv EXCEPT ![i] =
                              [iv EXCEPT !.outcome = "pass", !.autoNext = TRUE,
                                         !.nexts = @ + 1]]
                 /\ call' = c.call
                 /\ idx' = c.idx
                 /\ out' = c.out
                 /\ res' = res
            ELSE IF w.ok
              THEN /\ res' = end(w.res, IF TypeOf(result) # "string"
                                          THEN JsonValue(result) ELSE result.s)
                   /\ inv' = [inv EXCEPT ![i] =
                                [iv EXCEPT !.outcome = "ok", !.writes = @ + 1]]
                   /\ UNCHANGED <<out, call, idx>>
              ELSE /\ inv' = [inv EXCEPT ![i] =
                                [iv EXCEPT !.outcome = "ok", !.escaped = TRUE]]
                   /\ out' = Append(out, "error")
                   /\ UNCHANGED <<res, call, idx>>
  /\ frames' = Pop
  /\ UNCHANGED <<program, factory, stack, sfCalls, req>>

\* one route (with or without a validator) declared for each method of the
\* enumeration or for none, and requests of every method
InitWebapp ==
  /\ program \in {Program(Config(FALSE, FALSE, <<>>),
                          <<[Plain("/p") EXCEPT !.method = m, !.validate = v]>>) :
                    m \in httpMethods \cup {""}, v \in {"", "requireA"}}
  /\ factory = NoFactory
  /\ stack = <<>>
  /\ sfCalls = <<>>
  /\ req = NoRequest
  /\ res = NewResponse
  /\ idx = 0
  /\ call = 0
  /\ frames = <<>>
  /\ inv = <<>>
  /\ out = <<>>

NextWebapp ==
  \/ createHTTPFactory(program.config)
  \/ \E n \in DOMAIN program.declarations : routeHandler(program.declarations[n])
  \/ \E rq \in [method : {"GET", "HEAD", "POST", "PUT", "DELETE", "OPTIONS",
                          "TRACE", "PATCH"},
                 path : {"/p"},
                 query : {Obj([a |-> 1])},
                 body : {NoObj, Obj([b |-> 2])}] : Request(rq)
  \/ webappHandler
  \/ \E i \in Layers : resWriteHead(i)
  \/ \E i \in Layers : resEnd(i)
  \/ \E i \in Layers : nextWrapper(i)
  \/ \E i \in Layers : runThrows(i, Err("boom"))
  \/ \E i \in Layers, result \in {Undefined, Null, Str("ok"), EmptyRec} :
       webappReturns(i, result)
  \/ Finish
  \/ Close

SpecWebapp == InitWebapp /\ [][NextWebapp]_vars

\* C32: in the webapp-factory variant, for a route declared with any method
\* of the enumeration (or none): handler never invokes the continuation on
\* its own, and when `run` returns undefined with no response head written
\* and without having invoked the continuation, handler answers with status
\* 200 (application/json, no body).
C32_VariantAnswers ==
  \A i \in RouteInvocations :
    /\ ~inv[i].autoNext
    /\ inv[i].nexts > 0 => inv[i].nextCalled
    /\ (inv[i].pc = "done" /\ inv[i].ret = Undefined
          /\ ~inv[i].nextCalled /\ ~inv[i].headAtEnd) =>
         /\ inv[i].outcome = "ok" /\ inv[i].writes = 1 /\ inv[i].nexts = 0
         /\ res.finished /\ res.statusCode = "200" /\ res.contentType = JsonType
         /\ res.body = "" /\ res.heads = 1
         /\ out = <<>> /\ call = 0

C32_Witness ==
  \E i \in RouteInvocations :
    /\ stack[i].handler.method = "delete" /\ req.method = "DELETE"
    /\ inv[i].pc = "done" /\ inv[i].ret = Undefined /\ inv[i].ops = 0
    /\ res.statusCode = "200" /\ res.finished

\* invocation i called res.writeHead (in the preflight branch, in handleError,
\* in this.error or for the 200 answer) on a response that had a head
WroteOnHead(i) ==
  \/ inv[i].outcome \in {"preflight", "invalid"} /\ inv[i].headAtEntry
  \/ inv[i].outcome \in {"threw", "ok"} /\ inv[i].headAtEnd
  \/ inv[i].thrown = HeadersSentError

\* C33: the pipeline never writes status or headers to a response whose
\* head was written already, so at most one response is written per
\* request: also when `run` invokes the continuation and then throws, when
\* `run` writes a response and then throws, and when validation fails on a
\* request that an upstream middleware already answered.
C33_WritesOnce ==
  /\ res.heads <= 1
  /\ \A i \in RouteInvocations : ~WroteOnHead(i)

\* a middleware ahead of layer i answered the request and still invoked
\* the continuation
AnsweredUpstream(i) ==
  \E j \in 1..(i - 1) :
    /\ stack[j].handler.kind = "middleware"
    /\ inv[j].outcome = "respondAndPass"

C35_AllOrNothing ==
  [][/\ factory'.fault # "" => stack' = stack
     /\ ( /\ Len(factory'.faults) > Len(factory.faults)
          /\ factory'.faults[Len(factory'.faults)] # "" ) => stack' = stack]_vars

(***************************************************************************)
(* `run` working on the mapping this.data() returned: besides this.data    *)
(* with and without a value it sets a key of that mapping,                 *)
(* this.data().s = 9, in one route handler or in two on one path.          *)
(***************************************************************************)
\* this.data().s = 9: data returns requestParams itself, so the key is set
\* on the object requestParams refers to
paramsSet(i) ==
  /\ Running(i)
  /\ CanCall
  /\ LET m == ObjectAssign(ParamsOf(inv[i], req), [s |-> 9]) IN
       /\ req' = CASE inv[i].ref = "query" -> [req EXCEPT !.query = Obj(m)]
                   [] inv[i].ref = "body"  -> [req EXCEPT !.body = Obj(m)]
                   [] OTHER                -> req
       /\ inv' = [inv EXCEPT ![i] =
                    IF inv[i].ref = "own" THEN [Op(@) EXCEPT !.own = m] ELSE Op(@)]
  /\ UNCHANGED <<program, factory, stack, sfCalls, res, idx, call, frames, out>>

NextAlias ==
  \/ createHTTPFactory(program.config)
  \/ \E n \in DOMAIN program.declarations : routeHandler(program.declarations[n])
  \/ \E rq \in [method : {"GET", "POST", "PUT", "DELETE"}, path : {"/p"},
                 query : {NoObj, Obj([a |-> 1, x |-> 1])},
                 body : {NoObj, Obj([a |-> 2, y |-> 2])}] : Request(rq)
  \/ handler
  \/ \E i \in Layers, value \in DataValues : data(i, value)
  \/ \E i \in Layers : dataRead(i)
  \/ \E i \in Layers : paramsSet(i)
  \/ \E i \in Layers : nextWrapper(i)
  \/ \E i \in Layers : runReturns(i, Undefined)
  \/ Finish
  \/ Close

SpecAlias == InitPlain /\ [][NextAlias]_vars

\* C36: at every point of an invocation, also after this.data(value)
\* calls, the mapping this.data() returns is an object of its own, neither
\* req.query nor req.body: setting a key of it leaves the raw request's
\* query and body as they are.
C36_OwnMapping ==
  [][\A i \in DOMAIN inv :
       /\ inv[i].pc = "run" => inv[i].ref = "own"
       /\ paramsSet(i) => req' = req]_vars

\* C37: a this.data(value) call that fails (value is no object, or the
\* request has a method other than GET, POST, PUT, PATCH and no parsed body)
\* leaves req.query, req.body and the mapping this.data() returns as they
\* were before the call.
C37_FailedDataUnchanged ==
  [][\A i \in DOMAIN inv :
       ( /\ dataNoObject(i) \/ \E value \in DataValues : data(i, value)
         /\ inv'[i].pc = "done" )
       => /\ req' = req
          /\ ParamsOf(inv'[i], req') = ParamsOf(inv[i], req)]_vars

\* the mapping a further this.data(value) call would return in the state
\* the step leads to
AgainReturns(i, value) ==
  LET a == addRequestParams(req', value) IN
  ParamsOf([inv'[i] EXCEPT !.ref = a.ref, !.own = a.own], a.req)

\* C38: this.data(value) only adds or overwrites keys, for every request
\* method: every key this.data() returned before the call is still
\* returned, with the value of `value` where it has the key and with its
\* previous value otherwise (values `run` set on the returned mapping
\* included); the keys of `value` are returned with its values, whatever an
\* earlier call gave them; and a second call with the same value changes
\* neither the mapping nor the raw request.
C38_AddsOrOverwrites ==
  [][\A i \in DOMAIN inv : \A value \in DataValues :
       (data(i, value) /\ inv'[i].pc = "run") =>
         LET before == ParamsOf(inv[i], req)
             after  == ParamsOf(inv'[i], req')
         IN /\ after = Assigned(before, value)
            /\ addRequestParams(req', value).req = req'
            /\ AgainReturns(i, value) = after]_vars

====
